---------------------------- MODULE Spec2Model ----------------------------
(***************************************************************************)
(* chess-kmaps: five normalised positional metrics (Material, King Safety, *)
(* Activity, Pawn Structure, Space) of a chess position, and the           *)
(* aggregator computeKMAPS with the process-wide pawn-structure cache.     *)
(*                                                                         *)
(* Numbers.  The JavaScript source computes in floating point; the model   *)
(* computes the same expressions exactly, each score as an integer         *)
(* numerator over a fixed per-metric denominator (MaterialScale,           *)
(* ActivityScale, PawnScale, KingScale) or as a fraction <<num, den>>      *)
(* (Space).  The King Safety result needs the square of a numerator and is *)
(* kept as a two-limb number [hi, lo] = (hi * KingScale + lo) over         *)
(* 10 * KingScale^2.                                                       *)
(***************************************************************************)
EXTENDS Integers, Sequences, FiniteSets, TLC

(***************************************************************************)
(* Board, pieces, positions                                                *)
(***************************************************************************)
Files == 0..7
Ranks == 1..8
Squares == Files \X Ranks
Colors == {"w", "b"}

\* game.get(sq) / board()[r][f] of an empty square (null in the source)
NoPiece == [type |-> "-", color |-> "-"]
Pc(t, c) == [type |-> t, color |-> c]

\* no en-passant target ("-" in the encoding)
NoSquare == <<-1, -1>>

isOnBoard(file, rank) == file >= 0 /\ file <= 7 /\ rank >= 1 /\ rank <= 8

\* game.get(square): the piece on the square, nothing for a square off the board
Get(game, file, rank) ==
  IF isOnBoard(file, rank) THEN game.board[<<file, rank>>] ELSE NoPiece

enemy(color) == IF color = "w" THEN "b" ELSE "w"

forwardStep(color) == IF color = "w" THEN 1 ELSE -1

Abs(x) == IF x < 0 THEN -x ELSE x
Min(a, b) == IF a < b THEN a ELSE b
Max(a, b) == IF a > b THEN a ELSE b

\* clamp without its upper limit
clampNoUpper(x, one) == Max(0, x)

\* clamp without its lower limit
clampNoLower(x, one) == Min(one, x)

\* clamp(x) = max(0, min(1, x)) on a numerator over the denominator one
clamp(x, one) == Max(0, Min(one, x))

\* A position from a set of placements <<file, rank, type, color>>
Place(pieces, turn, castling, ep) ==
  [board |-> [s \in Squares |->
                IF \E p \in pieces : p[1] = s[1] /\ p[2] = s[2]
                THEN LET p == CHOOSE q \in pieces : q[1] = s[1] /\ q[2] = s[2]
                     IN Pc(p[3], p[4])
                ELSE NoPiece],
   turn |-> turn, castling |-> castling, ep |-> ep]

PiecesOf(game, color) == {s \in Squares : game.board[s].color = color}

\* board() scan order: rows from rank 8 down to rank 1, files a to h
ScanOrder == [i \in 1..64 |-> <<(i - 1) % 8, 8 - ((i - 1) \div 8)>>]

\* the scan from rank 1 up to rank 8
ScanOrderUp == [i \in 1..64 |-> <<(i - 1) % 8, 1 + ((i - 1) \div 8)>>]

(***************************************************************************)
(* Material (src/src/metrics/material.js)                                  *)
(***************************************************************************)
MaterialScale == 78
MaterialCentre == 39

\* a table that gives every piece the value of a pawn
pieceValuesFlat(type) == IF type = "k" THEN 0 ELSE 1

pieceValues(type) ==
  CASE type = "p" -> 1
    [] type = "n" -> 3
    [] type = "b" -> 3
    [] type = "r" -> 5
    [] type = "q" -> 9
    [] OTHER -> 0

\* the accumulator w (b) after the forEach over the 64 squares: every piece
\* that is not White is added to b
materialSum(game, color) ==
  LET counted(s) == /\ game.board[s] # NoPiece
                    /\ (game.board[s].color = "w") = (color = "w")
      acc[i \in 0..64] ==
        IF i = 0 THEN 0
        ELSE acc[i - 1] + (IF counted(ScanOrder[i])
                           THEN pieceValues(game.board[ScanOrder[i]].type) ELSE 0)
  IN acc[64]

materialWhiteDropsCentre(game) ==
  LET diff == materialSum(game, "w") - materialSum(game, "b")
  IN [whiteMaterialScore |-> clamp(diff, MaterialScale),
      blackMaterialScore |-> clamp(-diff + MaterialCentre, MaterialScale)]

\* scores are numerators over MaterialScale
getMaterialBoth(game) ==
  LET diff == materialSum(game, "w") - materialSum(game, "b")
  IN [whiteMaterialScore |-> clamp(diff + MaterialCentre, MaterialScale),
      blackMaterialScore |-> clamp(-diff + MaterialCentre, MaterialScale)]

(***************************************************************************)
(* King Safety (src/src/metrics/kingSafety.js).  The pre-smoothing score   *)
(* is a numerator over KingScale = 84000, the least common denominator of  *)
(* 0.15 * shield, 0.3 * (7 - d) / 7, 0.05 * mobility / 8 and               *)
(* weight / (10 * distance) with distance in 1..6.                         *)
(***************************************************************************)
KingScale == 84000

NoKing == [file |-> -1, rank |-> -1]

\* the scan keeps the last king it meets: rows from rank 8 down, files a to h
locateKing(game, color) ==
  LET ks == {s \in Squares : game.board[s] = Pc("k", color)}
  IN IF ks = {} THEN NoKing
     ELSE LET s == CHOOSE x \in ks :
                     \A y \in ks : x[2] < y[2] \/ (x[2] = y[2] /\ x[1] >= y[1])
          IN [file |-> s[1], rank |-> s[2]]

\* the file index of the shield loop, clipped to the board
shieldFile(king, df) == Max(0, Min(7, king.file + df))

\* a shield loop that skips the files off the board instead of clipping them
shieldCountSkipping(game, color, king) ==
  LET frontRank == IF color = "w" THEN king.rank + 1 ELSE king.rank - 1
      hit(df) == IF isOnBoard(king.file + df, frontRank)
                    /\ Get(game, king.file + df, frontRank) = Pc("p", color)
                 THEN 1 ELSE 0
  IN hit(-1) + hit(0) + hit(1)

shieldCount(game, color, king) ==
  LET frontRank == IF color = "w" THEN king.rank + 1 ELSE king.rank - 1
      hit(df) == IF Get(game, shieldFile(king, df), frontRank) = Pc("p", color)
                 THEN 1 ELSE 0
  IN hit(-1) + hit(0) + hit(1)

isCastled(color, king) ==
  IF color = "w" THEN king.rank = 1 /\ king.file \in {6, 2}
  ELSE king.rank = 8 /\ king.file \in {6, 2}

\* the flat 0.35 for every king on a castled square, whatever its shield
placementCastledAlways(color, king, shield) ==
  IF isCastled(color, king) THEN (35 * KingScale) \div 100
  ELSE ((7 - (IF color = "w" THEN king.rank - 1 ELSE 8 - king.rank)) * 30
          * KingScale) \div (7 * 100)

\* rankSafety * 0.3, or the flat 0.35 (shieldScore >= 0.66 is shield >= 2)
placement(color, king, shield) ==
  LET d == IF color = "w" THEN king.rank - 1 ELSE 8 - king.rank
  IN IF isCastled(color, king) /\ shield >= 2
     THEN (35 * KingScale) \div 100
     ELSE ((7 - d) * 30 * KingScale) \div (7 * 100)

mobilityCount(game, king) ==
  Cardinality({d \in (-1..1) \X (-1..1) :
                 /\ d # <<0, 0>>
                 /\ isOnBoard(king.file + d[2], king.rank + d[1])
                 /\ Get(game, king.file + d[2], king.rank + d[1]) = NoPiece})

\* enemy pieces weigh nothing unless queen, rook, bishop, knight or pawn
pressureWeightKingFree(type) ==
  CASE type = "q" -> 30
    [] type = "r" -> 20
    [] type = "b" -> 15
    [] type = "n" -> 12
    [] type = "p" -> 8
    [] OTHER -> 0

\* ten times the weight of an enemy piece
pressureWeight(type) ==
  CASE type = "q" -> 30
    [] type = "r" -> 20
    [] type = "b" -> 15
    [] type = "n" -> 12
    [] type = "p" -> 8
    [] OTHER -> 10

\* the 7 x 7 window (dr, df in -3..3), row by row
PressureWindow == [i \in 1..49 |-> <<((i - 1) \div 7) - 3, ((i - 1) % 7) - 3>>]

\* pressure / 10 over KingScale: weight / distance of the enemy pieces
\* within 3 ranks and 3 files of the king
pressureTenth(game, color, king) ==
  LET term(d) ==
        LET nr == king.rank + d[1]
            nf == king.file + d[2]
        IN IF d = <<0, 0>> \/ ~ isOnBoard(nf, nr) THEN 0
           ELSE IF Get(game, nf, nr).color = enemy(color)
                THEN pressureWeight(Get(game, nf, nr).type)
                       * ((KingScale \div 100) \div (Abs(d[1]) + Abs(d[2])))
                ELSE 0
      acc[i \in 0..49] == IF i = 0 THEN 0 ELSE acc[i - 1] + term(PressureWindow[i])
  IN acc[49]

\* a reduction that is not capped at 0.25
pressureCapNone == KingScale

pressureCap == (25 * KingScale) \div 100

\* the pressure added to the score instead of taken off it
kingRawScoreAddsPressure(game, color, king) ==
  clamp(shieldCount(game, color, king) * ((45 * KingScale) \div 300)
          + placement(color, king, shieldCount(game, color, king))
          + mobilityCount(game, king) * ((5 * KingScale) \div 800)
          + Min(pressureTenth(game, color, king), pressureCap), KingScale)

\* the clamped score before smoothing, over KingScale
kingRawScore(game, color, king) ==
  LET shield == shieldCount(game, color, king)
      score == shield * ((45 * KingScale) \div 300)
               + placement(color, king, shield)
               + mobilityCount(game, king) * ((5 * KingScale) \div 800)
               - Min(pressureTenth(game, color, king), pressureCap)
  IN clamp(score, KingScale)

\* a * b as quotient and remainder by KingScale, for 0 <= a, b <= KingScale,
\* without leaving 32 bits
MulDivMod(a, b) ==
  LET b1 == b \div 300
      b0 == b % 300
      ab1 == a * b1
      rest == (ab1 % KingScale) * 300 + a * b0
  IN [q |-> (ab1 \div KingScale) * 300 + rest \div KingScale,
      r |-> rest % KingScale]

\* two-limb numbers over 10 * KingScale^2
Limb(hi, lo) == [hi |-> hi, lo |-> lo]
LimbLeq(x, y) == x.hi < y.hi \/ (x.hi = y.hi /\ x.lo <= y.lo)
LimbLess(x, y) == x.hi < y.hi \/ (x.hi = y.hi /\ x.lo < y.lo)
\* n / d as a two-limb number, for d dividing 10 * KingScale
LimbOf(n, d) == Limb(n * ((10 * KingScale) \div d), 0)
LimbOne == Limb(10 * KingScale, 0)
LimbZero == Limb(0, 0)

limbClamp(x) ==
  IF LimbLess(x, LimbZero) THEN LimbZero
  ELSE IF LimbLess(LimbOne, x) THEN LimbOne ELSE x

\* the clamped score returned as it is, without the blend
smoothSkipped(n) == limbClamp(Limb(10 * n, 0))

\* a blend that lifts the score: the quadratic term taken at s = 1
smoothLifting(n) == limbClamp(Limb(7 * n + 3 * KingScale, 0))

\* clamp(0.7 * s + 0.3 * s * s) for s = n / KingScale
smooth(n) ==
  LET sq == MulDivMod(n, n)
      lo3 == 3 * sq.r
  IN limbClamp(Limb(7 * n + 3 * sq.q + lo3 \div KingScale, lo3 % KingScale))

\* the early return without a king skips the smoothing step too
kingNeutral == LimbOf(1, 2)

kingSafetySmoothsNeutral(game, color) ==
  LET king == locateKing(game, color)
  IN IF king = NoKing THEN smooth(KingScale \div 2)
     ELSE smooth(kingRawScore(game, color, king))

getKingSafety(game, color) ==
  LET king == locateKing(game, color)
  IN IF king = NoKing THEN kingNeutral
     ELSE smooth(kingRawScore(game, color, king))

(***************************************************************************)
(* Pawn Structure (src/src/metrics/pawnStructure.js).  A pawn is the pair  *)
(* <<file, rank>>; its square name is a function of the pair.  The score   *)
(* is a numerator over PawnScale = 100 * 2520: weights are hundredths and  *)
(* 2520 is divisible by every pawn total up to 10 and by 4 and 8.          *)
(***************************************************************************)
PawnUnit == 2520
PawnScale == 100 * PawnUnit

IsPawnOf(game, color, s) == game.board[s] = Pc("p", color)

\* the pawns of a side, in scan order
listPawns(game, color) ==
  SelectSeq(ScanOrder, LAMBDA s : IsPawnOf(game, color, s))

\* the pawns of a side, each side listed from its own back rank forward
listPawnsOwnSideFirst(game, color) ==
  IF color = "w" THEN SelectSeq(ScanOrderUp, LAMBDA s : IsPawnOf(game, color, s))
  ELSE SelectSeq(ScanOrder, LAMBDA s : IsPawnOf(game, color, s))

PawnSet(game, color) == {s \in Squares : IsPawnOf(game, color, s)}

listEnemyPawns(game, color) == listPawns(game, enemy(color))

filesWithPawns(game, color) == {s[1] : s \in PawnSet(game, color)}

\* forward diagonals: df = +1, then df = -1
pawnCaptureDeltas(color) ==
  IF color = "w" THEN << <<1, 1>>, <<-1, 1>> >> ELSE << <<1, -1>>, <<-1, -1>> >>

squareHasPawn(game, color, file, rank) ==
  isOnBoard(file, rank) /\ Get(game, file, rank) = Pc("p", color)

countPawns(game, color) == Len(listPawns(game, color))

\* 1) isolated: no friendly pawn on either adjacent file
countIsolatedPawns(game, color) ==
  LET filesSet == filesWithPawns(game, color)
  IN Cardinality({p \in PawnSet(game, color) :
                    (p[1] - 1) \notin filesSet /\ (p[1] + 1) \notin filesSet})

\* over the files: the pawns on a file beyond the first
SumExtra(pawns) ==
  LET n(f) == Cardinality({p \in pawns : p[1] = f})
      acc[f \in -1..7] ==
        IF f = -1 THEN 0 ELSE acc[f - 1] + (IF n(f) >= 2 THEN n(f) - 1 ELSE 0)
  IN acc[7]

\* 2) doubled
countDoubledPawns(game, color) == SumExtra(PawnSet(game, color))

\* 3) islands: maximal runs of consecutive files with pawns
countPawnIslands(game, color) ==
  LET files == filesWithPawns(game, color)
  IN Cardinality({f \in files : (f - 1) \notin files})

\* is rank r ahead of fromRank for the side
Ahead(color, r, fromRank) == IF color = "w" THEN r > fromRank ELSE r < fromRank

\* a count that overlooks the friendly pawn ahead on the file
countPassedPawnsDoubledToo(game, color) ==
  Cardinality({p \in PawnSet(game, color) :
     ~ \E q \in PawnSet(game, enemy(color)) :
         Abs(q[1] - p[1]) <= 1 /\ Ahead(color, q[2], p[2])})

\* 4) passed
countPassedPawns(game, color) ==
  LET my == PawnSet(game, color)
      opp == PawnSet(game, enemy(color))
      enemyPawnAheadOnFile(file, fromRank) ==
        \E q \in opp : q[1] = file /\ Ahead(color, q[2], fromRank)
      friendAheadOnFile(file, fromRank) ==
        \E q \in my : q[1] = file /\ Ahead(color, q[2], fromRank)
  IN Cardinality({p \in my :
        /\ ~ \E f \in {p[1], p[1] - 1, p[1] + 1} :
               f >= 0 /\ f <= 7 /\ enemyPawnAheadOnFile(f, p[2])
        /\ ~ friendAheadOnFile(p[1], p[2])})

\* 11) file classification; halfOpen[c] holds the files where only the
\* enemy of c has pawns
classifyFilesOwnPawnOnly(game) ==
  LET whiteFiles == filesWithPawns(game, "w")
      blackFiles == filesWithPawns(game, "b")
  IN [open |-> {f \in Files : f \notin whiteFiles /\ f \notin blackFiles},
      closed |-> {f \in Files : f \in whiteFiles /\ f \in blackFiles},
      halfOpen |-> [c \in Colors |->
         IF c = "w" THEN {f \in Files : f \in whiteFiles /\ f \notin blackFiles}
         ELSE {f \in Files : f \in blackFiles /\ f \notin whiteFiles}]]

classifyFiles(game) ==
  LET whiteFiles == filesWithPawns(game, "w")
      blackFiles == filesWithPawns(game, "b")
  IN [open |-> {f \in Files : f \notin whiteFiles /\ f \notin blackFiles},
      closed |-> {f \in Files : f \in whiteFiles /\ f \in blackFiles},
      halfOpen |-> [c \in Colors |->
         IF c = "w" THEN {f \in Files : f \in blackFiles /\ f \notin whiteFiles}
         ELSE {f \in Files : f \in whiteFiles /\ f \notin blackFiles}]]

\* a friendly pawn on an adjacent file, on a rank behind (ranks 2..7 only)
supportFromBehind(game, color, file, rank) ==
  \E df \in {-1, 1} :
    LET f2 == file + df
    IN /\ f2 >= 0 /\ f2 <= 7
       /\ IF color = "w"
          THEN \E r \in 2..(rank - 1) : squareHasPawn(game, color, f2, r)
          ELSE \E r \in (rank + 1)..7 : squareHasPawn(game, color, f2, r)

\* 5) candidate passed
countCandidatePassedPawns(game, color) ==
  LET filesHalfOpenForColor == classifyFiles(game).halfOpen[color]
      isBlockedByEnemyAhead(file, rank) ==
        LET r1 == rank + forwardStep(color)
        IN IF ~ isOnBoard(file, r1) THEN TRUE
           ELSE Get(game, file, r1) # NoPiece
  IN Cardinality({p \in PawnSet(game, color) :
        /\ p[1] \in filesHalfOpenForColor
        /\ ~ isBlockedByEnemyAhead(p[1], p[2])
        /\ supportFromBehind(game, color, p[1], p[2])})

\* the squares the pawns of a side attack
pawnControls(game, colorToMap) ==
  {<<p[1] + d[1], p[2] + d[2]>> :
     p \in PawnSet(game, colorToMap), d \in {<<1, forwardStep(colorToMap)>>,
                                             <<-1, forwardStep(colorToMap)>>}}
  \cap Squares

\* 6) backward
countBackwardPawns(game, color) ==
  LET myPawnCtrl == pawnControls(game, color)
      oppPawnCtrl == pawnControls(game, enemy(color))
  IN Cardinality({p \in PawnSet(game, color) :
        LET stopSq == <<p[1], p[2] + forwardStep(color)>>
        IN /\ isOnBoard(stopSq[1], stopSq[2])
           /\ ~ supportFromBehind(game, color, p[1], p[2])
           /\ stopSq \notin myPawnCtrl
           /\ stopSq \in oppPawnCtrl})

\* 7) hanging pairs
countHangingPawns(game, color) ==
  LET my == PawnSet(game, color)
      halfOpenForColor == classifyFiles(game).halfOpen[color]
      advancedOn(f) == IF color = "w" THEN \E p \in my : p[1] = f /\ p[2] >= 4
                       ELSE \E p \in my : p[1] = f /\ p[2] <= 5
  IN Cardinality({f \in 0..6 :
        /\ \E p \in my : p[1] = f
        /\ \E p \in my : p[1] = f + 1
        /\ advancedOn(f) /\ advancedOn(f + 1)
        /\ (IF f - 1 >= 0 THEN (f - 1) \in halfOpenForColor ELSE TRUE)
        /\ (IF f + 2 <= 7 THEN (f + 2) \in halfOpenForColor ELSE TRUE)})

\* p defends q: q is one rank ahead of p on an adjacent file
defends(color, p, q) ==
  Abs(q[1] - p[1]) = 1 /\ q[2] - p[2] = forwardStep(color)

\* one pass of the for loop over my inside the while loop
ChainInner(color, my, chain, visited) ==
  LET st[i \in 0..Len(my)] ==
        IF i = 0 THEN [chain |-> chain, visited |-> visited, expanded |-> FALSE]
        ELSE LET prev == st[i - 1]
             IN IF my[i] \notin prev.visited
                   /\ defends(color, prev.chain[Len(prev.chain)], my[i])
                THEN [chain |-> Append(prev.chain, my[i]),
                      visited |-> prev.visited \cup {my[i]}, expanded |-> TRUE]
                ELSE prev
  IN st[Len(my)]

\* while (expanded): passes until one adds nothing (at most Len(my) + 1)
ChainWhile(color, my, chain, visited) ==
  LET w[k \in 0..(Len(my) + 1)] ==
        IF k = 0 THEN [chain |-> chain, visited |-> visited, expanded |-> TRUE]
        ELSE LET prev == w[k - 1]
             IN IF prev.expanded
                THEN ChainInner(color, my, prev.chain, prev.visited)
                ELSE prev
  IN w[Len(my) + 1]

\* the outer for loop over my
ChainOuter(color, my) ==
  LET o[i \in 0..Len(my)] ==
        IF i = 0 THEN [visited |-> {}, chains |-> <<>>]
        ELSE LET prev == o[i - 1]
             IN IF my[i] \in prev.visited THEN prev
                ELSE LET res == ChainWhile(color, my, <<my[i]>>,
                                           prev.visited \cup {my[i]})
                     IN [visited |-> res.visited,
                         chains |-> IF Len(res.chain) > 1
                                    THEN Append(prev.chains, res.chain)
                                    ELSE prev.chains]
  IN o[Len(my)].chains

\* chains grown over the pawns listed from the side's own back rank forward
getPawnChainsOwnSideFirst(game, color) ==
  ChainOuter(color, listPawnsOwnSideFirst(game, color))

\* 8) chains: a sequence of chains, each a sequence of pawns
getPawnChains(game, color) == ChainOuter(color, listPawns(game, color))

countPawnChains(game, color) == Len(getPawnChains(game, color))

detectChainBases(game, color) ==
  LET chains == getPawnChains(game, color)
  IN [i \in 1..Len(chains) |-> chains[i][1]]

\* a count that takes a black pawn anywhere above on the file for a ram
countPawnRamsAnyDistance(game) ==
  Cardinality({w \in PawnSet(game, "w") :
     \E b \in PawnSet(game, "b") : b[1] = w[1] /\ b[2] > w[2]})

\* 9) rams: white pawns with a black pawn one rank above on the file
countPawnRams(game) ==
  Cardinality({w \in PawnSet(game, "w") : <<w[1], w[2] + 1>> \in PawnSet(game, "b")})

\* 10) levers: one per attacked enemy pawn
countPawnLevers(game, color) ==
  Cardinality({pd \in PawnSet(game, color) \X {1, -1} :
     LET f2 == pd[1][1] + pd[2]
         r2 == pd[1][2] + forwardStep(color)
     IN isOnBoard(f2, r2) /\ Get(game, f2, r2) = Pc("p", enemy(color))})

\* 12) majorities
detectPawnMajority(game, color) ==
  LET my == PawnSet(game, color)
      opp == PawnSet(game, enemy(color))
      myQ == Cardinality({p \in my : p[1] <= 2})
      myK == Cardinality({p \in my : p[1] >= 5})
      opQ == Cardinality({p \in opp : p[1] <= 2})
      opK == Cardinality({p \in opp : p[1] >= 5})
  IN [queensideMajority |-> myQ > opQ, kingsideMajority |-> myK > opK]

\* a minority that needs strictly fewer pawns than the opponent's
detectMinorityStrict(game, color) ==
  [queensideMinority |-> detectPawnMajority(game, enemy(color)).queensideMajority,
   kingsideMinority |-> detectPawnMajority(game, enemy(color)).kingsideMajority]

detectMinority(game, color) ==
  LET m == detectPawnMajority(game, color)
  IN [queensideMinority |-> ~ m.queensideMajority,
      kingsideMinority |-> ~ m.kingsideMajority]

\* 13) over-advanced
countOverAdvancedPawns(game, color) ==
  Cardinality({p \in PawnSet(game, color) :
     /\ (IF color = "w" THEN p[2] >= 6 ELSE p[2] <= 3)
     /\ ~ supportFromBehind(game, color, p[1], p[2])})

\* 14) weak pawns
countWeakPawns(game, color) ==
  countIsolatedPawns(game, color) + countBackwardPawns(game, color)
    + countOverAdvancedPawns(game, color)

\* 15) central doubled (files d and e)
countCentralDoubledPawns(game, color) ==
  SumExtra({p \in PawnSet(game, color) : p[1] = 3 \/ p[1] = 4})

\* a guard test that lets a pawn level with the square guard it
detectWeakSquaresLevelGuard(game, color) ==
  LET friendlyPawnCanGuardSquare(file, rank) ==
        \E df \in {-1, 1} :
          /\ isOnBoard(file - df, rank)
          /\ IF color = "w"
             THEN \E r \in 2..rank : squareHasPawn(game, color, file - df, r)
             ELSE \E r \in rank..7 : squareHasPawn(game, color, file - df, r)
      ranksToScan == IF color = "w" THEN {1, 2, 3, 4} ELSE {8, 7, 6, 5}
  IN {s \in Files \X ranksToScan : ~ friendlyPawnCanGuardSquare(s[1], s[2])}

\* 16) weak squares of the side's own half
detectWeakSquares(game, color) ==
  LET step == forwardStep(color)
      friendlyPawnCanGuardSquare(file, rank) ==
        \E df \in {-1, 1} :
          LET f2 == file - df
              r2 == rank - step
          IN /\ isOnBoard(f2, r2)
             /\ IF color = "w"
                THEN \E r \in 2..r2 : squareHasPawn(game, color, f2, r)
                ELSE \E r \in r2..7 : squareHasPawn(game, color, f2, r)
      ranksToScan == IF color = "w" THEN {1, 2, 3, 4} ELSE {8, 7, 6, 5}
  IN {s \in Files \X ranksToScan : ~ friendlyPawnCanGuardSquare(s[1], s[2])}

\* the detector counts of lines 530-550
pawnCounts(game, color) ==
  [total |-> Max(countPawns(game, color), 1),
   isolated |-> countIsolatedPawns(game, color),
   doubled |-> countDoubledPawns(game, color),
   islands |-> countPawnIslands(game, color),
   backward |-> countBackwardPawns(game, color),
   overAdv |-> countOverAdvancedPawns(game, color),
   centralD |-> countCentralDoubledPawns(game, color),
   passed |-> countPassedPawns(game, color),
   candPassed |-> countCandidatePassedPawns(game, color),
   chains |-> countPawnChains(game, color),
   bases |-> Len(detectChainBases(game, color)),
   levers |-> countPawnLevers(game, color),
   rams |-> countPawnRams(game),
   hanging |-> countHangingPawns(game, color),
   weakSq |-> Cardinality(detectWeakSquares(game, color)),
   weak |-> countWeakPawns(game, color)]

\* a flank bonus that adds the majorities and subtracts nothing
flankBonusMajoritiesOnly(game, color) ==
  (IF detectPawnMajority(game, color).queensideMajority THEN 2 * PawnUnit ELSE 0)
    + (IF detectPawnMajority(game, color).kingsideMajority THEN 2 * PawnUnit ELSE 0)

flankBonus(game, color) ==
  LET maj == detectPawnMajority(game, color)
      minorities == detectMinority(game, color)
      B(x) == IF x THEN 2 * PawnUnit ELSE 0
  IN B(maj.queensideMajority) + B(maj.kingsideMajority)
     - B(minorities.queensideMinority) - B(minorities.kingsideMinority)

\* a variant: the weighted sum without the doubled-pawn term
weightedSumDoubledFree(c, flank) ==
  PawnScale
  - 40 * c.isolated * (PawnUnit \div c.total)
  - 25 * c.backward * (PawnUnit \div c.total)
  - 20 * c.overAdv * (PawnUnit \div c.total)
  - 20 * c.centralD * (PawnUnit \div c.total)
  - 10 * Max(0, c.islands - 1) * (PawnUnit \div 4)
  - 5 * c.bases * (PawnUnit \div c.total)
  - 10 * c.weak * (PawnUnit \div c.total)
  - 10 * c.weakSq * (PawnUnit \div 8)
  - 5 * c.hanging * (PawnUnit \div 4)
  - 10 * c.rams * (PawnUnit \div 8)
  + 40 * c.passed * (PawnUnit \div c.total)
  + 15 * c.candPassed * (PawnUnit \div c.total)
  + 10 * c.chains * (PawnUnit \div 4)
  + 5 * c.levers * (PawnUnit \div c.total)
  + flank

\* the weighted sum of lines 558-575 over PawnScale, before clamping, from the
\* detector counts c and the flank bonus
weightedSum(c, flank) ==
  PawnScale
  - 40 * c.isolated * (PawnUnit \div c.total)
  - 55 * c.doubled * (PawnUnit \div c.total)
  - 25 * c.backward * (PawnUnit \div c.total)
  - 20 * c.overAdv * (PawnUnit \div c.total)
  - 20 * c.centralD * (PawnUnit \div c.total)
  - 10 * Max(0, c.islands - 1) * (PawnUnit \div 4)
  - 5 * c.bases * (PawnUnit \div c.total)
  - 10 * c.weak * (PawnUnit \div c.total)
  - 10 * c.weakSq * (PawnUnit \div 8)
  - 5 * c.hanging * (PawnUnit \div 4)
  - 10 * c.rams * (PawnUnit \div 8)
  + 40 * c.passed * (PawnUnit \div c.total)
  + 15 * c.candPassed * (PawnUnit \div c.total)
  + 10 * c.chains * (PawnUnit \div 4)
  + 5 * c.levers * (PawnUnit \div c.total)
  + flank

pawnRawScore(game, color) ==
  weightedSum(pawnCounts(game, color), flankBonus(game, color))

pawnScoreUnclamped(game, color) == pawnRawScore(game, color)

\* the score a computation stores and returns (line 577)
pawnResult(game, color) == clamp(pawnRawScore(game, color), PawnScale)

(***************************************************************************)
(* The position adapter (chess.js), as the metrics use it: fen(), the      *)
(* decoding constructor new Chess(fen) and moves({verbose: true}).  An     *)
(* encoding is the record of the fields the metrics read or replace:       *)
(* placement, side to move, castling rights, en-passant target.            *)
(***************************************************************************)
KingsOf(board, color) == {s \in Squares : board[s] = Pc("k", color)}

\* the first piece met from <<f, r>> (exclusive) in direction <<df, dr>>
RayHit(board, f, r, df, dr) ==
  LET hit == {k \in 1..7 : isOnBoard(f + k * df, r + k * dr)
                           /\ board[<<f + k * df, r + k * dr>>] # NoPiece}
  IN IF hit = {} THEN NoPiece
     ELSE LET k == CHOOSE x \in hit : \A y \in hit : x <= y
          IN board[<<f + k * df, r + k * dr>>]

KnightDeltas == {<<1, 2>>, <<2, 1>>, <<2, -1>>, <<1, -2>>,
                 <<-1, -2>>, <<-2, -1>>, <<-2, 1>>, <<-1, 2>>}
KingDeltas == ((-1..1) \X (-1..1)) \ {<<0, 0>>}
RookDeltas == {<<1, 0>>, <<-1, 0>>, <<0, 1>>, <<0, -1>>}
BishopDeltas == {<<1, 1>>, <<1, -1>>, <<-1, 1>>, <<-1, -1>>}

\* is the square attacked by a piece of byColor
Attacked(board, byColor, s) ==
  \/ \E df \in {-1, 1} :
       LET f == s[1] + df
           r == s[2] - forwardStep(byColor)
       IN isOnBoard(f, r) /\ board[<<f, r>>] = Pc("p", byColor)
  \/ \E d \in KnightDeltas :
       isOnBoard(s[1] + d[1], s[2] + d[2])
       /\ board[<<s[1] + d[1], s[2] + d[2]>>] = Pc("n", byColor)
  \/ \E d \in KingDeltas :
       isOnBoard(s[1] + d[1], s[2] + d[2])
       /\ board[<<s[1] + d[1], s[2] + d[2]>>] = Pc("k", byColor)
  \/ \E d \in RookDeltas :
       RayHit(board, s[1], s[2], d[1], d[2]) \in {Pc("r", byColor), Pc("q", byColor)}
  \/ \E d \in BishopDeltas :
       RayHit(board, s[1], s[2], d[1], d[2]) \in {Pc("b", byColor), Pc("q", byColor)}

\* a side without a king is never in check
KingAttacked(board, color) ==
  \E k \in KingsOf(board, color) : Attacked(board, enemy(color), k)

\* the squares a slider of the colour reaches from <<f, r>> in one direction:
\* empty squares up to the first piece, and that piece's square if it is an enemy's
RayTargets(board, color, f, r, df, dr) ==
  {<<f + k * df, r + k * dr>> : k \in {k \in 1..7 :
      /\ isOnBoard(f + k * df, r + k * dr)
      /\ board[<<f + k * df, r + k * dr>>].color # color
      /\ \A j \in 1..(k - 1) : board[<<f + j * df, r + j * dr>>] = NoPiece}}

StepTargets(board, color, s, deltas) ==
  {t \in {<<s[1] + d[1], s[2] + d[2]>> : d \in deltas} :
     isOnBoard(t[1], t[2]) /\ board[t].color # color}

SlideTargets(board, color, s, deltas) ==
  UNION {RayTargets(board, color, s[1], s[2], d[1], d[2]) : d \in deltas}

\* pawn destinations: pushes, captures and the en-passant capture
PawnTargets(game, color, s) ==
  LET board == game.board
      step == forwardStep(color)
      one == <<s[1], s[2] + step>>
      two == <<s[1], s[2] + 2 * step>>
      home == IF color = "w" THEN 2 ELSE 7
      push1 == IF isOnBoard(one[1], one[2]) /\ board[one] = NoPiece THEN {one} ELSE {}
      push2 == IF push1 # {} /\ s[2] = home /\ board[two] = NoPiece THEN {two} ELSE {}
      caps == {t \in {<<s[1] - 1, s[2] + step>>, <<s[1] + 1, s[2] + step>>} :
                 /\ isOnBoard(t[1], t[2])
                 /\ \/ board[t].color = enemy(color)
                    \/ t = game.ep}
  IN push1 \cup push2 \cup caps

PieceTargets(game, color, s) ==
  LET board == game.board
      t == board[s].type
  IN CASE t = "p" -> PawnTargets(game, color, s)
       [] t = "n" -> StepTargets(board, color, s, KnightDeltas)
       [] t = "k" -> StepTargets(board, color, s, KingDeltas)
       [] t = "b" -> SlideTargets(board, color, s, BishopDeltas)
       [] t = "r" -> SlideTargets(board, color, s, RookDeltas)
       [] t = "q" -> SlideTargets(board, color, s, RookDeltas \cup BishopDeltas)
       [] OTHER -> {}

\* the board after moving the piece on from to to (an en-passant capture
\* also removes the pawn passed)
MakeMove(game, from, to) ==
  LET board == game.board
      isEp == board[from].type = "p" /\ to = game.ep /\ from[1] # to[1]
                /\ board[to] = NoPiece
  IN [s \in Squares |->
        IF s = from THEN NoPiece
        ELSE IF s = to THEN board[from]
        ELSE IF isEp /\ s = <<to[1], from[2]>> THEN NoPiece
        ELSE board[s]]

\* castling destinations of the king: the right is held, the squares between
\* king and rook are empty, the king is not in check and does not cross or
\* land on an attacked square
CastleTargets(game, color) ==
  LET board == game.board
      r == IF color = "w" THEN 1 ELSE 8
      kside == IF color = "w" THEN "K" ELSE "k"
      qside == IF color = "w" THEN "Q" ELSE "q"
      safe(f) == ~ Attacked(board, enemy(color), <<f, r>>)
      empty(f) == board[<<f, r>>] = NoPiece
  IN IF board[<<4, r>>] # Pc("k", color) THEN {}
     ELSE (IF kside \in game.castling /\ empty(5) /\ empty(6)
              /\ safe(4) /\ safe(5) /\ safe(6) THEN {<<6, r>>} ELSE {})
          \cup
          (IF qside \in game.castling /\ empty(1) /\ empty(2) /\ empty(3)
              /\ safe(4) /\ safe(3) /\ safe(2) THEN {<<2, r>>} ELSE {})

Promotions == {"q", "r", "b", "n"}
NoPromotion == "-"

\* moves({verbose: true}) of the side to move: one record per move, four per
\* promoting pawn move; a move is legal when it leaves no own king attacked
moves(game) ==
  LET color == game.turn
      board == game.board
      last == IF color = "w" THEN 8 ELSE 1
      pseudo == UNION {{<<s, t>> : t \in PieceTargets(game, color, s)} :
                         s \in PiecesOf(game, color)}
      plain == {m \in pseudo : ~ KingAttacked(MakeMove(game, m[1], m[2]), color)}
      castles == {<<s, t>> : s \in KingsOf(board, color),
                             t \in CastleTargets(game, color)}
      isPromo(m) == board[m[1]].type = "p" /\ m[2][2] = last
      rec(m, pr) == [from |-> m[1], to |-> m[2], piece |-> board[m[1]].type,
                     promotion |-> pr]
  IN {rec(m, NoPromotion) : m \in {x \in plain \cup castles : ~ isPromo(x)}}
     \cup {rec(m, pr) : m \in {x \in plain : isPromo(x)}, pr \in Promotions}

\* fen(): the en-passant target is written only when a pawn of the side to
\* move can legally capture onto it
fenEpField(game) ==
  IF game.ep = NoSquare THEN NoSquare
  ELSE LET from == {s \in {<<game.ep[1] - 1, game.ep[2] - forwardStep(game.turn)>>,
                           <<game.ep[1] + 1, game.ep[2] - forwardStep(game.turn)>>} :
                      /\ isOnBoard(s[1], s[2])
                      /\ game.board[s] = Pc("p", game.turn)
                      /\ ~ KingAttacked(MakeMove(game, s, game.ep), game.turn)}
       IN IF from # {} THEN game.ep ELSE NoSquare

fen(game) ==
  [placement |-> game.board, turn |-> game.turn, castling |-> game.castling,
   ep |-> fenEpField(game)]

\* the decoder's checks on the fields of a well-formed encoding: an
\* en-passant target lies on rank 3 or 6 and is the square just passed by a
\* pawn of the side that is NOT to move; one king a side; no pawn on an edge rank
validateFenAnyEp(f) ==
  /\ f.turn \in Colors
  /\ f.ep = NoSquare \/ f.ep[2] \in {3, 6}
  /\ \A c \in Colors : Cardinality(KingsOf(f.placement, c)) = 1
  /\ \A s \in Squares : s[2] \in {1, 8} => f.placement[s].type # "p"

validateFen(f) ==
  /\ f.turn \in Colors
  /\ f.ep = NoSquare \/ f.ep[2] \in {3, 6}
  /\ ~ (f.ep # NoSquare /\ f.ep[2] = 3 /\ f.turn = "w")
  /\ ~ (f.ep # NoSquare /\ f.ep[2] = 6 /\ f.turn = "b")
  /\ \A c \in Colors : Cardinality(KingsOf(f.placement, c)) = 1
  /\ \A s \in Squares : s[2] \in {1, 8} => f.placement[s].type # "p"

\* new Chess(fen) on an encoding that validates
load(f) == [board |-> f.placement, turn |-> f.turn, castling |-> f.castling,
            ep |-> f.ep]

(***************************************************************************)
(* Piece Activity (src/unnamed/part_009).  A numerator over ActivityScale. *)
(***************************************************************************)
ActivityScale == 40

\* fenParts[1] = color: the encoding Activity decodes again
activityFen(game, color) == [fen(game) EXCEPT !.turn = color]

\* the central 4x4 the comment of isCentralSquare describes
isCentralSquareWide(s) == s[1] >= 2 /\ s[1] <= 5 /\ s[2] - 1 >= 2 /\ s[2] - 1 <= 5

\* files d-e, ranks 4-5
isCentralSquare(s) == s[1] >= 3 /\ s[1] <= 4 /\ s[2] - 1 >= 3 /\ s[2] - 1 <= 4

nonPawnMoves(game, color) ==
  Cardinality({m \in moves(load(activityFen(game, color))) : m.piece # "p"})

centralMinors(game, color) ==
  Cardinality({s \in PiecesOf(game, color) :
                 isCentralSquare(s) /\ game.board[s].type \in {"n", "b"}})

activityNoClamp(game, color) ==
  Min(nonPawnMoves(game, color), ActivityScale)
    + (ActivityScale \div 10) * centralMinors(game, color)

\* defined when activityFen(game, color) validates
getPieceActivity(game, color) ==
  clamp(Min(nonPawnMoves(game, color), ActivityScale)
          + (ActivityScale \div 10) * centralMinors(game, color), ActivityScale)

(***************************************************************************)
(* Space (src/src/metrics/space.js).  A fraction [num, den].               *)
(***************************************************************************)
ReachMax == 28

\* fenParts[1] = color; fenParts[3] = "-"
spaceFen(game, color) == [fen(game) EXCEPT !.turn = color, !.ep = NoSquare]

inOppHalf(color, rank) == IF color = "w" THEN rank >= 5 ELSE rank <= 4

reachSquares(game, color) ==
  {m.to : m \in {x \in moves(load(spaceFen(game, color))) :
                   x.piece # "k" /\ inOppHalf(color, x.to[2])}}

\* every piece weighing as much as a pawn
presenceWeightFlat(type) == 10

\* ten times the presence weight
presenceWeight(type) ==
  CASE type = "p" -> 10
    [] type = "n" -> 8
    [] type = "b" -> 8
    [] type = "r" -> 6
    [] type = "q" -> 5
    [] type = "k" -> 2
    [] OTHER -> 5

\* the presence weights of the squares of S, summed over the board scan
SumPresence(game, S) ==
  LET acc[i \in 0..64] ==
        IF i = 0 THEN 0
        ELSE acc[i - 1] + (IF ScanOrder[i] \in S
                           THEN presenceWeight(game.board[ScanOrder[i]].type) ELSE 0)
  IN acc[64]

\* files c, d, e, f
centralFiles == {2, 3, 4, 5}

Frac(n, d) == [num |-> n, den |-> d]
fracClamp(x) == Frac(Max(0, Min(x.den, x.num)), x.den)

\* 0.55 * reach + 0.3 * presence + 0.15 * foothold; a ratio with a zero
\* denominator is 0
spaceRaw(game, color) ==
  LET mine == PiecesOf(game, color)
      reach == Min(Cardinality(reachSquares(game, color)), ReachMax)
      presence == SumPresence(game, {s \in mine : inOppHalf(color, s[2])})
      maxPresence == SumPresence(game, mine)
      foothold == Cardinality({s \in mine : inOppHalf(color, s[2]) /\ s[1] \in centralFiles})
      footholdDen == Cardinality({s \in mine : s[1] \in centralFiles})
      M == IF maxPresence > 0 THEN maxPresence ELSE 1
      G == IF footholdDen > 0 THEN footholdDen ELSE 1
  IN Frac(55 * reach * M * G + 30 * presence * ReachMax * G
            + 15 * foothold * ReachMax * M,
          100 * ReachMax * M * G)

\* defined when spaceFen(game, color) validates
getSpaceForColor(game, color) == fracClamp(spaceRaw(game, color))

(***************************************************************************)
(* Positions.  FromRows reads a placement as the encoding writes it: rank  *)
(* 8 first, upper case for White, "." for an empty square.                 *)
(***************************************************************************)
Letter(l) ==
  CASE l = "P" -> Pc("p", "w") [] l = "N" -> Pc("n", "w") [] l = "B" -> Pc("b", "w")
    [] l = "R" -> Pc("r", "w") [] l = "Q" -> Pc("q", "w") [] l = "K" -> Pc("k", "w")
    [] l = "p" -> Pc("p", "b") [] l = "n" -> Pc("n", "b") [] l = "b" -> Pc("b", "b")
    [] l = "r" -> Pc("r", "b") [] l = "q" -> Pc("q", "b") [] l = "k" -> Pc("k", "b")
    [] OTHER -> NoPiece

FromRows(rows) == [s \in Squares |-> Letter(rows[9 - s[2]][s[1] + 1])]

Game(rows, turn, castling, ep) ==
  [board |-> FromRows(rows), turn |-> turn, castling |-> castling, ep |-> ep]

E8 == <<".", ".", ".", ".", ".", ".", ".", ".">>
AllRights == {"K", "Q", "k", "q"}

\* rnbqkbnr/pppppppp/8/8/8/8/PPPPPPPP/RNBQKBNR w KQkq -
StartPosition ==
  Game(<< <<"r", "n", "b", "q", "k", "b", "n", "r">>,
          <<"p", "p", "p", "p", "p", "p", "p", "p">>,
          E8, E8, E8, E8,
          <<"P", "P", "P", "P", "P", "P", "P", "P">>,
          <<"R", "N", "B", "Q", "K", "B", "N", "R">> >>, "w", AllRights, NoSquare)

\* rnbqkbnr/pppppppp/8/8/8/8/PPPPPPPP/RNBQKBNR b - -
StartBlackToMove ==
  Game(<< <<"r", "n", "b", "q", "k", "b", "n", "r">>,
          <<"p", "p", "p", "p", "p", "p", "p", "p">>,
          E8, E8, E8, E8,
          <<"P", "P", "P", "P", "P", "P", "P", "P">>,
          <<"R", "N", "B", "Q", "K", "B", "N", "R">> >>,
       "b", {}, NoSquare)

\* rnbqkbnr/ppp1pppp/8/3pP3/8/8/PPPP1PPP/RNBQKBNR w KQkq d6
EnPassantOpen ==
  Game(<< <<"r", "n", "b", "q", "k", "b", "n", "r">>,
          <<"p", "p", "p", ".", "p", "p", "p", "p">>,
          E8,
          <<".", ".", ".", "p", "P", ".", ".", ".">>,
          E8, E8,
          <<"P", "P", "P", "P", ".", "P", "P", "P">>,
          <<"R", "N", "B", "Q", "K", "B", "N", "R">> >>,
       "w", AllRights, <<3, 6>>)

\* rnbqkbnr/pppp1ppp/8/4p3/4P3/8/PPPP1PPP/RNBQKBNR w KQkq e6
EnPassantIdle ==
  Game(<< <<"r", "n", "b", "q", "k", "b", "n", "r">>,
          <<"p", "p", "p", "p", ".", "p", "p", "p">>,
          E8,
          <<".", ".", ".", ".", "p", ".", ".", ".">>,
          <<".", ".", ".", ".", "P", ".", ".", ".">>,
          E8,
          <<"P", "P", "P", "P", ".", "P", "P", "P">>,
          <<"R", "N", "B", "Q", "K", "B", "N", "R">> >>,
       "w", AllRights, <<4, 6>>)

\* rnb1kbnr/pppp1ppp/8/4p3/6Pq/5P2/PPPPP2P/RNBQKBNR w KQkq -
InCheck ==
  Game(<< <<"r", "n", "b", ".", "k", "b", "n", "r">>,
          <<"p", "p", "p", "p", ".", "p", "p", "p">>,
          E8,
          <<".", ".", ".", ".", "p", ".", ".", ".">>,
          <<".", ".", ".", ".", ".", ".", "P", "q">>,
          <<".", ".", ".", ".", ".", "P", ".", ".">>,
          <<"P", "P", "P", "P", "P", ".", ".", "P">>,
          <<"R", "N", "B", "Q", "K", "B", "N", "R">> >>,
       "w", AllRights, NoSquare)

\* 4k3/8/8/8/8/8/QPPPPPPP/RNBQKBNR w KQ -
QueenUp ==
  Game(<< <<".", ".", ".", ".", "k", ".", ".", ".">>,
          E8, E8, E8, E8, E8,
          <<"Q", "P", "P", "P", "P", "P", "P", "P">>,
          <<"R", "N", "B", "Q", "K", "B", "N", "R">> >>,
       "w", {"K", "Q"}, NoSquare)

\* r1bqkbnr/pppp1ppp/2n5/1B2p3/4P3/5N2/PPPP1PPP/RNBQK2R w KQkq -
RuyLopez ==
  Game(<< <<"r", ".", "b", "q", "k", "b", "n", "r">>,
          <<"p", "p", "p", "p", ".", "p", "p", "p">>,
          <<".", ".", "n", ".", ".", ".", ".", ".">>,
          <<".", "B", ".", ".", "p", ".", ".", ".">>,
          <<".", ".", ".", ".", "P", ".", ".", ".">>,
          <<".", ".", ".", ".", ".", "N", ".", ".">>,
          <<"P", "P", "P", "P", ".", "P", "P", "P">>,
          <<"R", "N", "B", "Q", "K", ".", ".", "R">> >>,
       "w", AllRights, NoSquare)

\* 4k3/8/8/3NB3/Q2QR3/8/8/R3K2R w KQ -
OpenBoard ==
  Game(<< <<".", ".", ".", ".", "k", ".", ".", ".">>,
          E8, E8,
          <<".", ".", ".", "N", "B", ".", ".", ".">>,
          <<"Q", ".", ".", "Q", "R", ".", ".", ".">>,
          E8, E8,
          <<"R", ".", ".", ".", "K", ".", ".", "R">> >>,
       "w", {"K", "Q"}, NoSquare)

\* 4k3/8/8/8/P7/P7/P7/4K3 w - -
TripledPawns ==
  Game(<< <<".", ".", ".", ".", "k", ".", ".", ".">>,
          E8, E8, E8,
          <<"P", ".", ".", ".", ".", ".", ".", ".">>,
          <<"P", ".", ".", ".", ".", ".", ".", ".">>,
          <<"P", ".", ".", ".", ".", ".", ".", ".">>,
          <<".", ".", ".", ".", "K", ".", ".", ".">> >>,
       "w", {}, NoSquare)

\* 6qK/6rr/8/8/8/8/8/k7 w - -
CorneredKing ==
  Game(<< <<".", ".", ".", ".", ".", ".", "q", "K">>,
          <<".", ".", ".", ".", ".", ".", "r", "r">>,
          E8, E8, E8, E8, E8,
          <<"k", ".", ".", ".", ".", ".", ".", ".">> >>,
       "w", {}, NoSquare)

\* 4k3/2p4p/8/8/3P4/2P5/8/4K3 w - -
SupportedPawn ==
  Game(<< <<".", ".", ".", ".", "k", ".", ".", ".">>,
          <<".", ".", "p", ".", ".", ".", ".", "p">>,
          E8, E8,
          <<".", ".", ".", "P", ".", ".", ".", ".">>,
          <<".", ".", "P", ".", ".", ".", ".", ".">>,
          E8,
          <<".", ".", ".", ".", "K", ".", ".", ".">> >>,
       "w", {}, NoSquare)

\* 4k3/2p4p/8/3n4/3P4/2P5/8/4K3 b - -
SupportedPawnBlocked ==
  Game(<< <<".", ".", ".", ".", "k", ".", ".", ".">>,
          <<".", ".", "p", ".", ".", ".", ".", "p">>,
          E8,
          <<".", ".", ".", "n", ".", ".", ".", ".">>,
          <<".", ".", ".", "P", ".", ".", ".", ".">>,
          <<".", ".", "P", ".", ".", ".", ".", ".">>,
          E8,
          <<".", ".", ".", ".", "K", ".", ".", ".">> >>,
       "b", {}, NoSquare)

\* rnbqkbnr/pppppppp/8/8/8/8/PPPPPPPP/RNBQ1BNR w kq -
NoWhiteKing ==
  Game(<< <<"r", "n", "b", "q", "k", "b", "n", "r">>,
          <<"p", "p", "p", "p", "p", "p", "p", "p">>,
          E8, E8, E8, E8,
          <<"P", "P", "P", "P", "P", "P", "P", "P">>,
          <<"R", "N", "B", "Q", ".", "B", "N", "R">> >>,
       "w", {"k", "q"}, NoSquare)

(***************************************************************************)
(* The pawn-structure cache _pawnTT (pawnStructure.js lines 497-526): a    *)
(* map from the pawn key to the scores stored so far, one per side.  The   *)
(* key "P:<white squares>|<black squares>" lists the sorted square names,  *)
(* so it is the pair of the two sets of pawn squares.                      *)
(***************************************************************************)
computePawnKey(game) == <<PawnSet(game, "w"), PawnSet(game, "b")>>

\* a map without entries: new Map(), or the {} a first store spreads
EmptyMap == [e \in {} |-> e]

\* a store that replaces the record of the key instead of merging into it
getPawnStructureForColorNoMerge(tt, key, fresh, color) ==
  IF key \in DOMAIN tt /\ color \in DOMAIN tt[key]
  THEN [value |-> clamp(tt[key][color], PawnScale), tt |-> tt, hit |-> TRUE]
  ELSE [value |-> fresh, tt |-> (key :> (color :> fresh)) @@ tt, hit |-> FALSE]

\* getPawnStructureForColor(game, color) on the cache tt, where key is
\* computePawnKey(game) and fresh the score lines 530-577 compute for
\* (game, color): the value returned, the cache left behind, and whether the
\* value was read from the cache
getPawnStructureForColor(tt, key, fresh, color) ==
  IF key \in DOMAIN tt /\ color \in DOMAIN tt[key]
  THEN [value |-> clamp(tt[key][color], PawnScale), tt |-> tt, hit |-> TRUE]
  ELSE LET prev == IF key \in DOMAIN tt THEN tt[key] ELSE EmptyMap
       IN [value |-> fresh,
           tt |-> (key :> ((color :> fresh) @@ prev)) @@ tt, hit |-> FALSE]

\* the call on a game whose metric calls are m
pawnCall(m, tt, color) ==
  getPawnStructureForColor(tt, m.pawnKey, m.pawn[color], color)

(***************************************************************************)
(* Calls and their outcomes                                                *)
(***************************************************************************)
\* the outcome of a call: a returned value, or an exception raised to the caller
Returned(v) == [threw |-> FALSE, value |-> v]
Threw == [threw |-> TRUE, value |-> <<>>]

\* getPieceActivity as its caller sees it: new Chess(fenParts.join(" ")) raises
\* on an encoding the decoder rejects
callGetPieceActivity(game, color) ==
  IF validateFen(activityFen(game, color))
  THEN Returned(getPieceActivity(game, color))
  ELSE Threw

\* getSpaceForColor as its caller sees it
callGetSpaceForColor(game, color) ==
  IF validateFen(spaceFen(game, color))
  THEN Returned(getSpaceForColor(game, color))
  ELSE Threw

\* the caller's game after getPieceActivity or getSpaceForColor, had the side
\* to move been set on the game itself
gameWithSideForced(game, color) == [game EXCEPT !.turn = color]

\* the caller's game after getPieceActivity or getSpaceForColor: fenParts is
\* an array split off the text game.fen() returns, the side is written into
\* that array and the moves are generated on temp, a Chess of its own; game
\* itself is only read (fen(), board())
gameAfterSideSwap(game, color) == game

\* what the metric functions give for a game, each on its own: the pawn key
\* and, per side, the score getPawnStructureForColor computes on a cache miss
metricCalls(game) ==
  [material |-> getMaterialBoth(game),
   king |-> [c \in Colors |-> getKingSafety(game, c)],
   activity |-> [c \in Colors |-> callGetPieceActivity(game, c)],
   pawnKey |-> computePawnKey(game),
   pawn |-> [c \in Colors |-> pawnResult(game, c)],
   space |-> [c \in Colors |-> callGetSpaceForColor(game, c)]]

(***************************************************************************)
(* computeKMAPS (src/src/computeKMAPS.js).  An argument is a value of any  *)
(* type: a string with its text, or another value (text then names it).   *)
(***************************************************************************)
Str(text) == [isString |-> TRUE, text |-> text]
Other(text) == [isString |-> FALSE, text |-> text]

\* JavaScript truthiness of the argument: !fen is true for undefined, null,
\* 0 and the empty string
truthy(input) ==
  IF input.isString THEN input.text # ""
  ELSE input.text \notin {"undefined", "null", "0"}

\* the encoding of a position as a caller writes it, en-passant target included
Encoding(game) ==
  [placement |-> game.board, turn |-> game.turn, castling |-> game.castling,
   ep |-> game.ep]

\* rnbqkbnr/pppppppp/8/8/8/8/PPPPPPPP/RNBKKBNR w kq -
TwoWhiteKings ==
  [Encoding(StartPosition) EXCEPT !.placement[<<3, 1>>] = Pc("k", "w")]

\* rnbqkbnr/pppppppp/8/8/4P3/8/PPPP1PPP/RNBQKBNR w KQkq e3
EnPassantWrongSide ==
  [Encoding(StartPosition) EXCEPT !.placement[<<4, 2>>] = NoPiece,
                                  !.placement[<<4, 4>>] = Pc("p", "w"),
                                  !.ep = <<4, 3>>]

\* the strings that split into the six fields of an encoding, with the
\* fields the metrics read
FenFields ==
  ("rnbqkbnr/pppppppp/8/8/8/8/PPPPPPPP/RNBQKBNR w KQkq - 0 1"
     :> Encoding(StartPosition))
  @@ ("rnbqkbnr/pppppppp/8/8/8/8/PPPPPPPP/RNBQKBNR b - - 0 1"
     :> Encoding(StartBlackToMove))
  @@ ("rnbqkbnr/ppp1pppp/8/3pP3/8/8/PPPP1PPP/RNBQKBNR w KQkq d6 0 3"
     :> Encoding(EnPassantOpen))
  @@ ("rnbqkbnr/pppp1ppp/8/4p3/4P3/8/PPPP1PPP/RNBQKBNR w KQkq e6 0 2"
     :> Encoding(EnPassantIdle))
  @@ ("rnb1kbnr/pppp1ppp/8/4p3/6Pq/5P2/PPPPP2P/RNBQKBNR w KQkq - 1 3"
     :> Encoding(InCheck))
  @@ ("4k3/8/8/8/8/8/QPPPPPPP/RNBQKBNR w KQ - 0 1" :> Encoding(QueenUp))
  @@ ("r1bqkbnr/pppp1ppp/2n5/1B2p3/4P3/5N2/PPPP1PPP/RNBQK2R w KQkq - 0 4"
     :> Encoding(RuyLopez))
  @@ ("4k3/8/8/3NB3/Q2QR3/8/8/R3K2R w KQ - 0 1" :> Encoding(OpenBoard))
  @@ ("4k3/8/8/8/P7/P7/P7/4K3 w - - 0 1" :> Encoding(TripledPawns))
  @@ ("6qK/6rr/8/8/8/8/8/k7 w - - 0 1" :> Encoding(CorneredKing))
  @@ ("4k3/2p4p/8/8/3P4/2P5/8/4K3 w - - 0 1" :> Encoding(SupportedPawn))
  @@ ("4k3/2p4p/8/3n4/3P4/2P5/8/4K3 b - - 0 1"
     :> Encoding(SupportedPawnBlocked))
  @@ ("rnbqkbnr/pppppppp/8/8/8/8/PPPPPPPP/RNBQ1BNR w kq - 0 1"
     :> Encoding(NoWhiteKing))
  @@ ("rnbqkbnr/pppppppp/8/8/8/8/PPPPPPPP/RNBKKBNR w kq - 0 1"
     :> TwoWhiteKings)
  @@ ("rnbqkbnr/pppppppp/8/8/4P3/8/PPPP1PPP/RNBQKBNR w KQkq e3 0 1"
     :> EnPassantWrongSide)

\* if (!fen || typeof fen !== "string") return [];
isRejectedArgument(input) == ~ truthy(input) \/ ~ input.isString

\* a decoder that loads whatever has the six fields
decodesUnvalidated(text) == text \in DOMAIN FenFields

\* what new Chess(text) makes of each string with the fields of an encoding,
\* evaluated once per string: the metric calls on the game, or nothing when
\* the decoder raises
Decoded ==
  [text \in DOMAIN FenFields |->
     IF validateFen(FenFields[text])
     THEN <<metricCalls(load(FenFields[text]))>> ELSE <<>>]

\* new Chess(text) returns a game
decodes(text) == decodesUnvalidated(text) /\ Decoded[text] # <<>>

Row(metric, white, black) == [metric |-> metric, White |-> white, Black |-> black]

\* the list with the Pawn Structure record ahead of the Activity record
kmapsRowsPawnFirst(m, pawnW, pawnB) ==
  << Row("Material", m.material.whiteMaterialScore, m.material.blackMaterialScore),
     Row("King Safety", m.king["w"], m.king["b"]),
     Row("Pawn Structure", pawnW, pawnB),
     Row("Activity", m.activity["w"].value, m.activity["b"].value),
     Row("Space", m.space["w"].value, m.space["b"].value) >>

\* the returned list (lines 31-41)
kmapsRows(m, pawnW, pawnB) ==
  << Row("Material", m.material.whiteMaterialScore, m.material.blackMaterialScore),
     Row("King Safety", m.king["w"], m.king["b"]),
     Row("Activity", m.activity["w"].value, m.activity["b"].value),
     Row("Pawn Structure", pawnW, pawnB),
     Row("Space", m.space["w"].value, m.space["b"].value) >>

\* the catch block of line 17: return []
decodeFailureRaises(tt) == [out |-> Threw, tt |-> tt, hits |-> 0]

decodeFailure(tt) == [out |-> Returned(<<>>), tt |-> tt, hits |-> 0]

Hits(lookup) == IF lookup.hit THEN 1 ELSE 0

\* lines 21-41 on the cache tt, where m holds the metric calls on the decoded
\* game: the outcome, the cache left behind and the number of pawn scores
\* read from the cache.  An exception of a metric call ends the function
\* where it is raised: the Activity calls come before the Pawn Structure
\* calls, the Space calls after them
kmapsOfGame(m, tt) ==
  IF m.activity["w"].threw \/ m.activity["b"].threw
  THEN [out |-> Threw, tt |-> tt, hits |-> 0]
  ELSE LET pawnW == getPawnStructureForColor(tt, m.pawnKey, m.pawn["w"], "w")
           pawnB == getPawnStructureForColor(pawnW.tt, m.pawnKey, m.pawn["b"], "b")
       IN IF m.space["w"].threw \/ m.space["b"].threw
          THEN [out |-> Threw, tt |-> pawnB.tt, hits |-> Hits(pawnW) + Hits(pawnB)]
          ELSE [out |-> Returned(kmapsRows(m, pawnW.value, pawnB.value)),
                tt |-> pawnB.tt, hits |-> Hits(pawnW) + Hits(pawnB)]

\* computeKMAPS(input) on the cache tt
computeKMAPS(input, tt) ==
  IF isRejectedArgument(input) THEN [out |-> Returned(<<>>), tt |-> tt, hits |-> 0]
  ELSE IF ~ decodes(input.text) THEN decodeFailure(tt)
  ELSE kmapsOfGame(Decoded[input.text][1], tt)

\* the arguments callers pass: undefined, 42, "", "invalid-fen" and the
\* strings above
Inputs ==
  {Other("undefined"), Other("42"), Str(""), Str("invalid-fen")}
  \cup {Str(text) : text \in DOMAIN FenFields}

(***************************************************************************)
(* The program: a caller holding a chess.js game, the metric functions     *)
(* called on it, and computeKMAPS called on an argument.  theGame is the   *)
(* caller's game object, pawnTT the module-level cache _pawnTT, ret the    *)
(* last call with its outcome.                                             *)
(***************************************************************************)
VARIABLES theGame, pawnTT, ret

vars == <<theGame, pawnTT, ret>>

\* the games a caller holds: positions decoded from an encoding, and a
\* board edited afterwards (the white king taken off)
Games ==
  {StartPosition, StartBlackToMove, EnPassantOpen, EnPassantIdle, InCheck,
   QueenUp, RuyLopez, OpenBoard, TripledPawns, CorneredKing, SupportedPawn,
   SupportedPawnBlocked, NoWhiteKing}

\* the metric calls on each of them, evaluated once
MetricsOf == [g \in Games |-> metricCalls(g)]

\* the cache holds the scores of at most this many pawn keys
MaxCacheKeys == 1

\* a call as its caller sees it, with the number of pawn scores it read from
\* the cache
Call(op, arg, outcome, hits) ==
  [op |-> op, arg |-> arg, threw |-> outcome.threw, value |-> outcome.value,
   hits |-> hits]

\* after the modules are loaded: _pawnTT = new Map(), game = new Chess()
Init ==
  /\ theGame = StartPosition
  /\ pawnTT = EmptyMap
  /\ ret = Call("Chess", <<>>, Returned(<<>>), 0)

\* the caller sets up another position
SetUp(g) ==
  /\ theGame' = g
  /\ ret' = Call("Chess", <<>>, Returned(<<>>), 0)
  /\ UNCHANGED pawnTT

CallGetMaterialBoth ==
  /\ ret' = Call("getMaterialBoth", <<>>, Returned(MetricsOf[theGame].material), 0)
  /\ UNCHANGED <<theGame, pawnTT>>

CallGetKingSafety(c) ==
  /\ ret' = Call("getKingSafety", <<c>>, Returned(MetricsOf[theGame].king[c]), 0)
  /\ UNCHANGED <<theGame, pawnTT>>

CallGetPieceActivity(c) ==
  /\ ret' = Call("getPieceActivity", <<c>>, MetricsOf[theGame].activity[c], 0)
  /\ theGame' = gameAfterSideSwap(theGame, c)
  /\ UNCHANGED pawnTT

CallGetSpaceForColor(c) ==
  /\ ret' = Call("getSpaceForColor", <<c>>, MetricsOf[theGame].space[c], 0)
  /\ theGame' = gameAfterSideSwap(theGame, c)
  /\ UNCHANGED pawnTT

CallGetPawnStructureForColor(c) ==
  LET res == pawnCall(MetricsOf[theGame], pawnTT, c)
  IN /\ Cardinality(DOMAIN res.tt) <= MaxCacheKeys
     /\ pawnTT' = res.tt
     /\ ret' = Call("getPawnStructureForColor", <<c>>, Returned(res.value),
                  Hits(res))
     /\ UNCHANGED theGame

CallComputeKMAPS(input) ==
  LET res == computeKMAPS(input, pawnTT)
  IN /\ Cardinality(DOMAIN res.tt) <= MaxCacheKeys
     /\ pawnTT' = res.tt
     /\ ret' = Call("computeKMAPS", <<input>>, res.out, res.hits)
     /\ UNCHANGED theGame

Next ==
  \/ \E g \in Games : SetUp(g)
  \/ CallGetMaterialBoth
  \/ \E c \in Colors : CallGetKingSafety(c)
  \/ \E c \in Colors : CallGetPieceActivity(c)
  \/ \E c \in Colors : CallGetSpaceForColor(c)
  \/ \E c \in Colors : CallGetPawnStructureForColor(c)
  \/ \E input \in Inputs : CallComputeKMAPS(input)

Spec == Init /\ [][Next]_vars

(***************************************************************************)
(* getMaterialBoth on its own, over the positions with up to MaxQueens     *)
(* queens, MaxRooks rooks, MaxMinors minor pieces and MaxPawns pawns a     *)
(* side: the pieces of a kind stand side by side from the a-file, queens   *)
(* on the side's first rank, rooks on its second, minor pieces (knight,    *)
(* bishop, knight, ...) on its third, pawns on its fourth, the king on the *)
(* h-file of the first.                                                    *)
(***************************************************************************)
MaxQueens == 3
MaxRooks == 2
MaxMinors == 2
MaxPawns == 1

PieceCounts == [q : 0..MaxQueens, r : 0..MaxRooks, m : 0..MaxMinors, p : 0..MaxPawns]

\* the rank of a side counted from its own back rank
ownRank(color, n) == IF color = "w" THEN n ELSE 9 - n

Army(color, counts) ==
  {<<i - 1, ownRank(color, 1), "q", color>> : i \in 1..counts.q}
  \cup {<<i - 1, ownRank(color, 2), "r", color>> : i \in 1..counts.r}
  \cup {<<i - 1, ownRank(color, 3), IF i % 2 = 1 THEN "n" ELSE "b", color>> :
          i \in 1..counts.m}
  \cup {<<i - 1, ownRank(color, 4), "p", color>> : i \in 1..counts.p}
  \cup {<<7, ownRank(color, 1), "k", color>>}

MaterialGames ==
  {Place(Army("w", cw) \cup Army("b", cb), "w", {}, NoSquare) :
     cw \in PieceCounts, cb \in PieceCounts}

InitMaterial ==
  /\ theGame \in MaterialGames
  /\ pawnTT = EmptyMap
  /\ ret = Call("Chess", <<>>, Returned(<<>>), 0)

ApplyGetMaterialBoth ==
  /\ ret' = Call("getMaterialBoth", <<>>, Returned(getMaterialBoth(theGame)), 0)
  /\ UNCHANGED <<theGame, pawnTT>>

NextMaterial == ApplyGetMaterialBoth

SpecMaterial == InitMaterial /\ [][NextMaterial]_vars

(***************************************************************************)
(* getKingSafety on its own, over boards where each king stands on one of  *)
(* a few squares or is missing, with some of White's pawns in front of the *)
(* castled king and a black queen near it or not.                          *)
(***************************************************************************)
WhiteKingSquares == {<<4, 1>>, <<6, 1>>, <<7, 1>>, <<0, 1>>, <<4, 4>>, NoSquare}
BlackKingSquares == {<<4, 8>>, <<6, 8>>, NoSquare}
ShieldPawnSquares == {<<5, 2>>, <<6, 2>>, <<7, 2>>}
QueenSquares == {<<6, 3>>, <<3, 3>>, NoSquare}

KingBoard(wk, bk, pawns, bq) ==
  Place((IF wk = NoSquare THEN {} ELSE {<<wk[1], wk[2], "k", "w">>})
          \cup (IF bk = NoSquare THEN {} ELSE {<<bk[1], bk[2], "k", "b">>})
          \cup {<<s[1], s[2], "p", "w">> : s \in pawns}
          \cup (IF bq = NoSquare THEN {} ELSE {<<bq[1], bq[2], "q", "b">>}),
        "w", {}, NoSquare)

KingGames ==
  {KingBoard(wk, bk, pawns, bq) :
     wk \in WhiteKingSquares, bk \in BlackKingSquares,
     pawns \in SUBSET ShieldPawnSquares, bq \in QueenSquares}

InitKing ==
  /\ theGame \in KingGames
  /\ pawnTT = EmptyMap
  /\ ret = Call("Chess", <<>>, Returned(<<>>), 0)

ApplyGetKingSafety(c) ==
  /\ ret' = Call("getKingSafety", <<c>>, Returned(getKingSafety(theGame, c)), 0)
  /\ UNCHANGED <<theGame, pawnTT>>

NextKing == \E c \in Colors : ApplyGetKingSafety(c)

SpecKing == InitKing /\ [][NextKing]_vars

(***************************************************************************)
(* getKingSafety over the shields of a king: the king of one side on a     *)
(* castled square, a corner, its home square, the middle of the board or   *)
(* the far rank; any of its pawns on the squares one rank ahead; an enemy  *)
(* queen or knight, or nothing, beside it and two ranks ahead of it; the   *)
(* other king in the far corner, out of the 7 x 7 window.                  *)
(***************************************************************************)
ShieldKingSquares(c) ==
  IF c = "w"
  THEN {<<6, 1>>, <<2, 1>>, <<0, 1>>, <<7, 1>>, <<4, 1>>, <<4, 4>>, <<4, 8>>}
  ELSE {<<6, 8>>, <<2, 8>>, <<0, 8>>, <<7, 8>>, <<4, 8>>, <<4, 5>>, <<4, 1>>}

\* the squares one rank ahead of the king that can hold a pawn
FrontSquares(c, k) ==
  {s \in Squares : /\ s[2] = k[2] + forwardStep(c)
                   /\ s[2] \in 2..7
                   /\ Abs(s[1] - k[1]) <= 1}

AttackerSpots(c, k) ==
  {<<k[1] - 1, k[2]>>, <<k[1], k[2] + 2 * forwardStep(c)>>,
   <<k[1] + 1, k[2] + 2 * forwardStep(c)>>} \cap Squares

FarCorner(k) == <<IF k[1] <= 3 THEN 7 ELSE 0, IF k[2] <= 4 THEN 8 ELSE 1>>

ShieldBoard(c, k, pawns, attackers) ==
  Place({<<k[1], k[2], "k", c>>,
         <<FarCorner(k)[1], FarCorner(k)[2], "k", enemy(c)>>}
          \cup {<<s[1], s[2], "p", c>> : s \in pawns}
          \cup {<<s[1], s[2], attackers[s], enemy(c)>> :
                  s \in {x \in DOMAIN attackers : attackers[x] # "-"}},
        "w", {}, NoSquare)

ShieldGames ==
  UNION {UNION {{ShieldBoard(c, k, pawns, attackers) :
                   pawns \in SUBSET FrontSquares(c, k),
                   attackers \in [AttackerSpots(c, k) -> {"-", "q", "n"}]} :
                k \in ShieldKingSquares(c)} : c \in Colors}

InitShield ==
  /\ theGame \in ShieldGames
  /\ pawnTT = EmptyMap
  /\ ret = Call("Chess", <<>>, Returned(<<>>), 0)

ApplyGetKingSafetyShield(c) ==
  /\ ret' = Call("getKingSafety", <<c>>, Returned(getKingSafety(theGame, c)), 0)
  /\ UNCHANGED <<theGame, pawnTT>>

NextShield == \E c \in Colors : ApplyGetKingSafetyShield(c)

SpecShield == InitShield /\ [][NextShield]_vars

(***************************************************************************)
(* getPieceActivity and getSpaceForColor on their own, over boards with    *)
(* the kings on e1 and e8, one knight, bishop, rook or pawn of either side *)
(* on a square in or next to the centre, and a white knight or not on a    *)
(* second square; and over some of the games of the program.               *)
(***************************************************************************)
CentreSquares == {<<3, 4>>, <<4, 4>>, <<3, 5>>, <<4, 5>>, <<2, 4>>, <<5, 5>>, <<2, 3>>}
SecondKnightSquares == {NoSquare, <<3, 5>>, <<2, 6>>}

CentreBoard(type, c, s, n2) ==
  Place({<<4, 1, "k", "w">>, <<4, 8, "k", "b">>, <<s[1], s[2], type, c>>}
          \cup (IF n2 = NoSquare \/ n2 = s THEN {}
                ELSE {<<n2[1], n2[2], "n", "w">>}),
        "w", {}, NoSquare)

CentreGames ==
  {CentreBoard(type, c, s, n2) :
     type \in {"n", "b", "r", "p"}, c \in Colors, s \in CentreSquares,
     n2 \in SecondKnightSquares}
  \cup {StartPosition, RuyLopez, OpenBoard, InCheck, EnPassantOpen}

InitCentre ==
  /\ theGame \in CentreGames
  /\ pawnTT = EmptyMap
  /\ ret = Call("Chess", <<>>, Returned(<<>>), 0)

ApplyGetPieceActivity(c) ==
  /\ ret' = Call("getPieceActivity", <<c>>, callGetPieceActivity(theGame, c), 0)
  /\ theGame' = gameAfterSideSwap(theGame, c)
  /\ UNCHANGED pawnTT

ApplyGetSpaceForColor(c) ==
  /\ ret' = Call("getSpaceForColor", <<c>>, callGetSpaceForColor(theGame, c), 0)
  /\ theGame' = gameAfterSideSwap(theGame, c)
  /\ UNCHANGED pawnTT

NextCentre ==
  \/ \E c \in Colors : ApplyGetPieceActivity(c)
  \/ \E c \in Colors : ApplyGetSpaceForColor(c)

SpecCentre == InitCentre /\ [][NextCentre]_vars

(***************************************************************************)
(* getKingSafety under enemy pressure: the king of one side on its home    *)
(* square, in a corner or in the middle; one enemy piece of any type (the  *)
(* enemy king included) beside it, a knight's move away, at the corner of  *)
(* the 7 x 7 window or just outside the window; an enemy rook two files    *)
(* away or not; a friendly queen beside the king or not.                   *)
(***************************************************************************)
PressureKingSquares(c) ==
  IF c = "w" THEN {<<4, 1>>, <<0, 1>>, <<3, 4>>}
  ELSE {<<4, 8>>, <<0, 8>>, <<3, 5>>}

\* offsets <<file, rank in the side's direction>> from the king: inside the
\* window (distance 1, 3 and 6) and outside it (four files, four ranks away)
PressureOffsets == {<<1, 0>>, <<2, 1>>, <<3, 3>>, <<4, 0>>, <<1, 4>>}

PressureTypes == {"q", "r", "b", "n", "p", "k"}

PressureBoard(c, k, type, off, rook, queen) ==
  Place({<<k[1], k[2], "k", c>>}
          \cup (IF type = "-" THEN {}
                ELSE {<<k[1] + off[1], k[2] + off[2] * forwardStep(c), type,
                        enemy(c)>>})
          \cup (IF type = "k" THEN {}
                ELSE {<<7, IF c = "w" THEN 8 ELSE 1, "k", enemy(c)>>})
          \cup (IF rook THEN {<<k[1] + 2, k[2], "r", enemy(c)>>} ELSE {})
          \cup (IF queen THEN {<<k[1], k[2] + forwardStep(c), "q", c>>} ELSE {}),
        "w", {}, NoSquare)

PressureGames ==
  {PressureBoard(x[1], x[2], x[3], x[4], x[5], x[6]) :
     x \in {y \in Colors \X Squares \X (PressureTypes \cup {"-"})
                  \X PressureOffsets \X BOOLEAN \X BOOLEAN :
              /\ y[2] \in PressureKingSquares(y[1])
              /\ y[3] = "p" => (y[2][2] + y[4][2] * forwardStep(y[1])) \in 2..7}}

InitPressure ==
  /\ theGame \in PressureGames
  /\ pawnTT = EmptyMap
  /\ ret = Call("Chess", <<>>, Returned(<<>>), 0)

NextPressure == \E c \in Colors : ApplyGetKingSafety(c)

SpecPressure == InitPressure /\ [][NextPressure]_vars

(***************************************************************************)
(* getPawnStructureForColor on its own, over the positions with up to      *)
(* MaxWhitePawns white and MaxBlackPawns black pawns on the squares of the *)
(* c-, d- and e-files between the third and the sixth rank.                *)
(***************************************************************************)
MaxWhitePawns == 3
MaxBlackPawns == 1

WhitePawnSquares == (2..4) \X (3..5)
BlackPawnSquares == (2..4) \X (4..6)

PawnBoard(wp, bp) ==
  Place({<<s[1], s[2], "p", "w">> : s \in wp}
          \cup {<<s[1], s[2], "p", "b">> : s \in bp}
          \cup {<<4, 1, "k", "w">>, <<4, 8, "k", "b">>},
        "w", {}, NoSquare)

PawnGames ==
  {PawnBoard(wb[1], wb[2]) :
     wb \in {x \in (SUBSET WhitePawnSquares) \X (SUBSET BlackPawnSquares) :
               /\ Cardinality(x[1]) <= MaxWhitePawns
               /\ Cardinality(x[2]) <= MaxBlackPawns
               /\ x[1] \cap x[2] = {}}}

InitPawn ==
  /\ theGame \in PawnGames
  /\ pawnTT = EmptyMap
  /\ ret = Call("Chess", <<>>, Returned(<<>>), 0)

ApplyGetPawnStructureForColor(c) ==
  LET res == getPawnStructureForColor(pawnTT, computePawnKey(theGame),
                                      pawnResult(theGame, c), c)
  IN /\ pawnTT' = res.tt
     /\ ret' = Call("getPawnStructureForColor", <<c>>, Returned(res.value),
                  Hits(res))
     /\ UNCHANGED theGame

NextPawn == \E c \in Colors : ApplyGetPawnStructureForColor(c)

SpecPawn == InitPawn /\ [][NextPawn]_vars

(***************************************************************************)
(* getPawnStructureForColor over structures that differ in one detector    *)
(* count: White has StructurePawns pawns on a2, b2, b3, c2, d2, e2, f2 and *)
(* g2, Black has no pawn or one on h7.                                     *)
(***************************************************************************)
StructurePawns == 5

StructureSquares ==
  {<<0, 2>>, <<1, 2>>, <<1, 3>>, <<2, 2>>, <<3, 2>>, <<4, 2>>, <<5, 2>>,
   <<6, 2>>}

StructureGames ==
  {PawnBoard(wb[1], wb[2]) :
     wb \in {x \in SUBSET StructureSquares : Cardinality(x) = StructurePawns}
            \X {{}, {<<7, 7>>}}}

InitStructure ==
  /\ theGame \in StructureGames
  /\ pawnTT = EmptyMap
  /\ ret = Call("Chess", <<>>, Returned(<<>>), 0)

NextStructure == \E c \in Colors : ApplyGetPawnStructureForColor(c)

SpecStructure == InitStructure /\ [][NextStructure]_vars

(***************************************************************************)
(* getPawnStructureForColor over pawns in contact: up to MaxContactPawns   *)
(* white pawns on c4, d4, e4, d3 and f2 and as many black pawns on c5, d5, *)
(* e5, c3 and f7, which gives levers on one and on both diagonals, rams,   *)
(* doubled pawns, enemy pawns level with and behind a pawn, and flanks     *)
(* with more, fewer and as many pawns as the opponent's.                   *)
(***************************************************************************)
MaxContactPawns == 2

WhiteContactSquares == {<<2, 4>>, <<3, 4>>, <<4, 4>>, <<3, 3>>, <<5, 2>>}
BlackContactSquares == {<<2, 5>>, <<3, 5>>, <<4, 5>>, <<2, 3>>, <<5, 7>>}

ContactGames ==
  {PawnBoard(wb[1], wb[2]) :
     wb \in {x \in (SUBSET WhiteContactSquares) \X (SUBSET BlackContactSquares) :
               /\ Cardinality(x[1]) <= MaxContactPawns
               /\ Cardinality(x[2]) <= MaxContactPawns}}

InitContact ==
  /\ theGame \in ContactGames
  /\ pawnTT = EmptyMap
  /\ ret = Call("Chess", <<>>, Returned(<<>>), 0)

NextContact == \E c \in Colors : ApplyGetPawnStructureForColor(c)

SpecContact == InitContact /\ [][NextContact]_vars

(***************************************************************************)
(* getPawnStructureForColor interleaved: NumEvaluations evaluations, each  *)
(* on its own game and side, take their steps on the shared _pawnTT in any *)
(* order.  An evaluation reads the cache (lines 525-528), computes its     *)
(* score (530-577), reads the record of its key again (578) and stores the *)
(* merged record (579).  Here ret holds the evaluations: for each its      *)
(* game, side, position in the function, the record read at line 578, the  *)
(* score computed and the value returned.  A game is named by its number   *)
(* in InterleavedGames; the value returned counts once pc is "done".       *)
(***************************************************************************)
NumEvaluations == 3

Evaluations == 1..NumEvaluations

\* the games evaluated, by number; StartPosition and NoWhiteKing have the
\* same pawns, so the same key
InterleavedGames == <<StartPosition, NoWhiteKing, SupportedPawn>>

\* the metric calls on the game an evaluation was given
MetricsIn(ev) == MetricsOf[InterleavedGames[ev.game]]

\* _pawnTT.get(computePawnKey(game)), undefined read as no record
getCachedPawnStructure(tt, key) == IF key \in DOMAIN tt THEN tt[key] ELSE EmptyMap

\* a merge that files the score under the other side
mergeRecordOtherSide(prev, color, result) == (enemy(color) :> result) @@ prev

\* { ...prev, [color]: result }
mergeRecord(prev, color, result) == (color :> result) @@ prev

\* _pawnTT.set(computePawnKey(game), data)
storePawnStructure(tt, key, data) == (key :> data) @@ tt

Evaluation(g, c) ==
  [game |-> g, color |-> c, pc |-> "lookup", prev |-> EmptyMap, result |-> 0,
   returned |-> 0]

InFlight == ret.value

InitInterleaved ==
  /\ theGame = StartPosition
  /\ pawnTT = EmptyMap
  /\ \E gs \in [Evaluations -> DOMAIN InterleavedGames], cs \in [Evaluations -> Colors] :
       ret = Call("interleaved", <<>>,
                  Returned([e \in Evaluations |-> Evaluation(gs[e], cs[e])]), 0)

Step(e, after) == ret' = [ret EXCEPT !.value[e] = after]

\* lines 525-528: a hit returns the cached score; a miss goes on to compute
\* the score of lines 530-577
Lookup(e) ==
  LET ev == InFlight[e]
      cached == getCachedPawnStructure(pawnTT, MetricsIn(ev).pawnKey)
  IN /\ ev.pc = "lookup"
     /\ IF ev.color \in DOMAIN cached
        THEN Step(e, [ev EXCEPT !.pc = "done",
                                !.returned = clamp(cached[ev.color], PawnScale)])
        ELSE Step(e, [ev EXCEPT !.pc = "readPrev",
                                !.result = MetricsIn(ev).pawn[ev.color]])
     /\ UNCHANGED <<theGame, pawnTT>>

\* line 578: prev = getCachedPawnStructure(game) || {}
ReadPrev(e) ==
  LET ev == InFlight[e]
  IN /\ ev.pc = "readPrev"
     /\ Step(e, [ev EXCEPT !.pc = "store",
                           !.prev = getCachedPawnStructure(pawnTT,
                                      MetricsIn(ev).pawnKey)])
     /\ UNCHANGED <<theGame, pawnTT>>

\* lines 579-580: storePawnStructure(game, { ...prev, [color]: result })
Store(e) ==
  LET ev == InFlight[e]
  IN /\ ev.pc = "store"
     /\ pawnTT' = storePawnStructure(pawnTT, MetricsIn(ev).pawnKey,
                                     mergeRecord(ev.prev, ev.color, ev.result))
     /\ Step(e, [ev EXCEPT !.pc = "done", !.returned = ev.result])
     /\ UNCHANGED theGame

NextInterleaved == \E e \in Evaluations : Lookup(e) \/ ReadPrev(e) \/ Store(e)

SpecInterleaved == InitInterleaved /\ [][NextInterleaved]_vars

(***************************************************************************)
(* Properties                                                              *)
(***************************************************************************)
InUnit(v, one) == 0 <= v /\ v <= one
LimbInUnit(v) == LimbLeq(LimbZero, v) /\ LimbLeq(v, LimbOne)
FracInUnit(v) == v.den > 0 /\ 0 <= v.num /\ v.num <= v.den

\* a game that was decoded from an encoding
Decodable(game) == validateFen(Encoding(game))

RowInUnit(row) ==
  CASE row.metric = "Material" ->
         InUnit(row.White, MaterialScale) /\ InUnit(row.Black, MaterialScale)
    [] row.metric = "King Safety" -> LimbInUnit(row.White) /\ LimbInUnit(row.Black)
    [] row.metric = "Activity" ->
         InUnit(row.White, ActivityScale) /\ InUnit(row.Black, ActivityScale)
    [] row.metric = "Pawn Structure" ->
         InUnit(row.White, PawnScale) /\ InUnit(row.Black, PawnScale)
    [] row.metric = "Space" -> FracInUnit(row.White) /\ FracInUnit(row.Black)
    [] OTHER -> FALSE

StartFen == Str("rnbqkbnr/pppppppp/8/8/8/8/PPPPPPPP/RNBQKBNR w KQkq - 0 1")

\* C1: for a position that decodes, every score computeKMAPS returns and
\* every score a metric function returns when called directly lies in
\* [0, 1], whether the pawn score is computed or read from the cache.
C1_ScoresInUnitInterval ==
  /\ (ret.op = "computeKMAPS" /\ ~ ret.threw)
       => \A i \in 1..Len(ret.value) : RowInUnit(ret.value[i])
  /\ (ret.op = "getMaterialBoth" /\ Decodable(theGame))
       => /\ InUnit(ret.value.whiteMaterialScore, MaterialScale)
          /\ InUnit(ret.value.blackMaterialScore, MaterialScale)
  /\ (ret.op = "getKingSafety" /\ Decodable(theGame)) => LimbInUnit(ret.value)
  /\ (ret.op = "getPieceActivity" /\ Decodable(theGame) /\ ~ ret.threw)
       => InUnit(ret.value, ActivityScale)
  /\ (ret.op = "getPawnStructureForColor" /\ Decodable(theGame))
       => InUnit(ret.value, PawnScale)
  /\ (ret.op = "getSpaceForColor" /\ Decodable(theGame) /\ ~ ret.threw)
       => FracInUnit(ret.value)

\* a pawn score above 1 before clamping, stored and read back from the cache
C1_Witness ==
  /\ ret.op = "getPawnStructureForColor"
  /\ ret.hits = 1
  /\ theGame = QueenUp
  /\ ret.arg = <<"w">>
  /\ pawnRawScore(QueenUp, "w") > PawnScale
  /\ ret.value = PawnScale

MetricNames == <<"Material", "King Safety", "Activity", "Pawn Structure", "Space">>

\* C2: the list computeKMAPS returns has length 0 or 5; for an input that
\* decodes it has 5 records named Material, King Safety, Activity, Pawn
\* Structure, Space in this order, each with exactly the fields metric,
\* White and Black.
C2_FiveRecordsInOrder ==
  (ret.op = "computeKMAPS" /\ ~ ret.threw)
    => /\ Len(ret.value) \in {0, 5}
       /\ (ret.arg[1].isString /\ decodes(ret.arg[1].text))
            => /\ Len(ret.value) = 5
               /\ \A i \in 1..5 :
                    /\ ret.value[i].metric = MetricNames[i]
                    /\ DOMAIN ret.value[i] = {"metric", "White", "Black"}

C2_Witness ==
  /\ ret.op = "computeKMAPS"
  /\ ret.arg = <<StartFen>>
  /\ ~ ret.threw
  /\ Len(ret.value) = 5

\* an argument that is not a string, is the empty string, or is a string
\* the decoder rejects
Undecodable(input) ==
  \/ ~ input.isString
  \/ input.text = ""
  \/ input.text \notin DOMAIN FenFields
  \/ ~ validateFen(FenFields[input.text])

\* C3: on an argument that is not a string, is empty or is rejected by the
\* decoder, computeKMAPS returns the empty list and leaves the cache as it was.
C3_RejectedInputGivesEmptyList ==
  [][(ret'.op = "computeKMAPS" /\ Undecodable(ret'.arg[1]))
       => (~ ret'.threw /\ ret'.value = <<>> /\ pawnTT' = pawnTT)]_vars

\* a rejected string met with scores in the cache
C3_Witness ==
  /\ ret.op = "computeKMAPS"
  /\ ret.arg = <<Str("invalid-fen")>>
  /\ ret.value = <<>>
  /\ pawnTT # EmptyMap

\* C4: computeKMAPS never raises an exception to its caller.
C4_NeverRaises == ret.op = "computeKMAPS" => ~ ret.threw

\* C5: a pawn score read from the cache is the score a computation on an
\* empty cache gives for the position and side asked about, and the list
\* computeKMAPS returns is the list it returns on an empty cache.
C5_CacheNeverAltersOutcome ==
  /\ ret.op = "getPawnStructureForColor"
       => ret.value = MetricsOf[theGame].pawn[ret.arg[1]]
  /\ (ret.op = "computeKMAPS" /\ ~ ret.threw /\ Len(ret.value) = 5)
       => ret.value = computeKMAPS(ret.arg[1], EmptyMap).out.value

\* a score for the position with the knight on d5 read from the cache, with
\* the same pawns as the position without the knight
C5_Witness ==
  /\ ret.op = "getPawnStructureForColor"
  /\ ret.hits = 1
  /\ theGame = SupportedPawnBlocked
  /\ computePawnKey(SupportedPawnBlocked) = computePawnKey(SupportedPawn)
  /\ SupportedPawnBlocked.board # SupportedPawn.board

\* C6: the two material scores sum to 1, clamped or not.
C6_MaterialSumsToOne ==
  ret.op = "getMaterialBoth"
    => ret.value.whiteMaterialScore + ret.value.blackMaterialScore = MaterialScale

\* a material difference above 39
C6_Witness ==
  /\ ret.op = "getMaterialBoth"
  /\ materialSum(theGame, "w") - materialSum(theGame, "b") > MaterialCentre
  /\ ret.value.whiteMaterialScore = MaterialScale

\* the value of the pieces of a side with pawn 1, knight 3, bishop 3, rook 5,
\* queen 9, king 0
StatedValue(type) ==
  CASE type = "p" -> 1 [] type = "n" -> 3 [] type = "b" -> 3
    [] type = "r" -> 5 [] type = "q" -> 9 [] OTHER -> 0

StatedSum(game, color) ==
  LET squares == PiecesOf(game, color)
      count(type) == Cardinality({s \in squares : game.board[s].type = type})
  IN StatedValue("p") * count("p") + StatedValue("n") * count("n")
     + StatedValue("b") * count("b") + StatedValue("r") * count("r")
     + StatedValue("q") * count("q") + StatedValue("k") * count("k")

\* C7: the side with the strictly greater summed piece value has the
\* strictly greater material score, and equal sums give 0.5 to both.
C7_GreaterMaterialGreaterScore ==
  ret.op = "getMaterialBoth"
    => LET w == StatedSum(theGame, "w")
           b == StatedSum(theGame, "b")
           white == ret.value.whiteMaterialScore
           black == ret.value.blackMaterialScore
       IN /\ w > b => white > black
          /\ w < b => white < black
          /\ w = b => (2 * white = MaterialScale /\ 2 * black = MaterialScale)

\* Black ahead by a single pawn
C7_Witness ==
  /\ ret.op = "getMaterialBoth"
  /\ StatedSum(theGame, "b") = StatedSum(theGame, "w") + 1
  /\ ret.value.blackMaterialScore > ret.value.whiteMaterialScore

\* C8: for the starting position computeKMAPS returns, for both sides,
\* Material 0.5, King Safety 0.69375, Activity 0.1, Pawn Structure 0.76
\* and Space 0.
C8_StartingPositionValues ==
  (ret.op = "computeKMAPS" /\ ret.arg = <<StartFen>>)
    => /\ ~ ret.threw
       /\ Len(ret.value) = 5
       /\ \A side \in {"White", "Black"} :
            /\ 2 * ret.value[1][side] = MaterialScale
            /\ ret.value[2][side] = LimbOf(111, 160)
            /\ 10 * ret.value[3][side] = ActivityScale
            /\ 100 * ret.value[4][side] = 76 * PawnScale
            /\ ret.value[5][side].num = 0

C8_Witness ==
  /\ ret.op = "computeKMAPS"
  /\ ret.arg = <<StartFen>>
  /\ ret.hits = 0
  /\ Len(ret.value) = 5

\* the mirror image of a position: ranks reflected, colours swapped
mirror(game) ==
  [board |-> [s \in Squares |->
                LET piece == game.board[<<s[1], 9 - s[2]>>]
                IN IF piece = NoPiece THEN NoPiece
                   ELSE Pc(piece.type, enemy(piece.color))],
   turn |-> enemy(game.turn),
   castling |-> {IF x = "K" THEN "k" ELSE IF x = "Q" THEN "q"
                 ELSE IF x = "k" THEN "K" ELSE "Q" : x \in game.castling},
   ep |-> IF game.ep = NoSquare THEN NoSquare ELSE <<game.ep[1], 9 - game.ep[2]>>]

\* C9: White's pawn-structure score of a position equals Black's of the
\* mirror image, and so does every detector count.
C9_MirrorSymmetric ==
  (ret.op = "getPawnStructureForColor" /\ ret.arg = <<"w">>)
    => /\ ret.value = pawnResult(mirror(theGame), "b")
       /\ \A d \in {"isolated", "doubled", "islands", "passed", "backward",
                     "chains", "bases", "levers", "rams", "hanging", "weakSq",
                     "overAdv"} :
            pawnCounts(theGame, "w")[d] = pawnCounts(mirror(theGame), "b")[d]

\* C10: without a king of the side getKingSafety returns exactly 0.5.
C10_NoKingGivesNeutral ==
  (ret.op = "getKingSafety" /\ KingsOf(theGame.board, ret.arg[1]) = {})
    => (~ ret.threw /\ ret.value = LimbOf(1, 2))

\* a board without the white king, asked about White
C10_Witness ==
  /\ ret.op = "getKingSafety"
  /\ ret.arg = <<"w">>
  /\ KingsOf(theGame.board, "w") = {}
  /\ KingsOf(theGame.board, "b") # {}
  /\ ret.value = LimbOf(1, 2)


MetricOps ==
  {"getMaterialBoth", "getKingSafety", "getPieceActivity",
   "getPawnStructureForColor", "getSpaceForColor"}

\* C11: a metric call leaves the caller's position as it was: placement,
\* side to move, castling rights and en-passant square.
C11_MetricCallsLeaveGameAlone ==
  [][ret'.op \in MetricOps
       => /\ theGame'.board = theGame.board
          /\ theGame'.turn = theGame.turn
          /\ theGame'.castling = theGame.castling
          /\ theGame'.ep = theGame.ep]_vars

\* Space asked about the side that is not to move, on a game that holds an
\* en-passant square
C11_Witness ==
  /\ ret.op = "getSpaceForColor"
  /\ ~ ret.threw
  /\ ret.arg = <<"b">>
  /\ theGame = EnPassantOpen
  /\ theGame.turn = "w"
  /\ theGame.ep # NoSquare


\* C12: a score the cache holds for a pawn key and a side is never removed
\* or changed by a later call; a hit writes nothing, and a miss for the
\* other side of the key keeps the first side's score in the record.
C12_CacheEntriesStable ==
  [][/\ \A key \in DOMAIN pawnTT : \A c \in DOMAIN pawnTT[key] :
          /\ key \in DOMAIN pawnTT'
          /\ c \in DOMAIN pawnTT'[key]
          /\ pawnTT'[key][c] = pawnTT[key][c]
     /\ (ret'.op = "getPawnStructureForColor" /\ ret'.hits = 1)
          => pawnTT' = pawnTT]_vars

\* a miss for Black has just been merged into a record that held White's score
C12_Witness ==
  /\ ret.op = "getPawnStructureForColor"
  /\ ret.arg = <<"b">>
  /\ ret.hits = 0
  /\ computePawnKey(theGame) \in DOMAIN pawnTT
  /\ DOMAIN pawnTT[computePawnKey(theGame)] = {"w", "b"}


\* the king of the side the last getKingSafety call asked about
AskedKing == locateKing(theGame, ret.arg[1])

\* the friendly pawns on the on-board squares one rank ahead of the king, on
\* its file and the adjacent files
PawnsAhead(game, color, king) ==
  {s \in Squares : /\ s[2] = king.rank + forwardStep(color)
                   /\ Abs(s[1] - king.file) <= 1
                   /\ game.board[s] = Pc("p", color)}

\* g1 or c1 for White, g8 or c8 for Black
OnCastledSquare(color, king) ==
  <<king.file, king.rank>> \in (IF color = "w" THEN {<<6, 1>>, <<2, 1>>}
                                ELSE {<<6, 8>>, <<2, 8>>})

\* C13: a king on a post-castling square with friendly pawns on all three
\* squares ahead of it scores above 0.4, whatever enemy pieces are near.
C13_CastledShieldedKingAboveFourTenths ==
  (/\ ret.op = "getKingSafety"
   /\ AskedKing # NoKing
   /\ OnCastledSquare(ret.arg[1], AskedKing)
   /\ Cardinality(PawnsAhead(theGame, ret.arg[1], AskedKing)) = 3)
    => LimbLess(LimbOf(2, 5), ret.value)

\* the black king on g8 behind f7, g7, h7 with enemy pressure at the cap
C13_Witness ==
  /\ ret.op = "getKingSafety"
  /\ ret.arg = <<"b">>
  /\ AskedKing = [file |-> 6, rank |-> 8]
  /\ Cardinality(PawnsAhead(theGame, "b", AskedKing)) = 3
  /\ pressureTenth(theGame, "b", AskedKing) > pressureCap
  /\ LimbLess(LimbOf(2, 5), ret.value)

\* C14: a king with no friendly pawn on the squares one rank ahead of it
\* scores below 0.4, wherever it stands.
C14_UnshieldedKingBelowFourTenths ==
  (/\ ret.op = "getKingSafety"
   /\ AskedKing # NoKing
   /\ PawnsAhead(theGame, ret.arg[1], AskedKing) = {})
    => LimbLess(ret.value, LimbOf(2, 5))

\* the white king on g1 without pawns ahead and without enemy pieces near
C14_Witness ==
  /\ ret.op = "getKingSafety"
  /\ ret.arg = <<"w">>
  /\ AskedKing = [file |-> 6, rank |-> 1]
  /\ PawnsAhead(theGame, "w", AskedKing) = {}
  /\ pressureTenth(theGame, "w", AskedKing) = 0
  /\ LimbLess(ret.value, LimbOf(2, 5))


\* C20: the shield count is the number of friendly pawns on the on-board
\* squares one rank ahead of the king, each counted once; for a king on the
\* a-file or the h-file it is at most 2.
C20_ShieldCountsEachPawnOnce ==
  (ret.op = "getKingSafety" /\ AskedKing # NoKing)
    => /\ shieldCount(theGame, ret.arg[1], AskedKing)
            = Cardinality(PawnsAhead(theGame, ret.arg[1], AskedKing))
       /\ AskedKing.file \in {0, 7}
            => shieldCount(theGame, ret.arg[1], AskedKing) <= 2


\* d4, e4, d5, e5
FourCentralSquares == {<<3, 4>>, <<4, 4>>, <<3, 5>>, <<4, 5>>}

\* clamp(min(n / 40, 1) + 0.1 * k) in fortieths
StatedActivity(n, k) ==
  LET reach == IF n < 40 THEN n ELSE 40
      sum == reach + 4 * k
  IN IF sum < 0 THEN 0 ELSE IF sum > 40 THEN 40 ELSE sum

StatedWeight(type) ==
  CASE type = "p" -> 10 [] type = "n" -> 8 [] type = "b" -> 8
    [] type = "r" -> 6 [] type = "q" -> 5 [] type = "k" -> 2

\* the stated weights of the pieces on the squares of S, summed
StatedWeightOf(game, S) ==
  LET count(type) == Cardinality({s \in S : game.board[s].type = type})
  IN StatedWeight("p") * count("p") + StatedWeight("n") * count("n")
     + StatedWeight("b") * count("b") + StatedWeight("r") * count("r")
     + StatedWeight("q") * count("q") + StatedWeight("k") * count("k")

RECURSIVE GCD(_, _)
GCD(a, b) == IF b = 0 THEN a ELSE GCD(b, a % b)

\* a fraction with a positive denominator in lowest terms
Lowest(n, d) == <<n \div GCD(n, d), d \div GCD(n, d)>>

\* ranks 5-8 for White, 1-4 for Black
OpponentHalf(c) == IF c = "w" THEN 5..8 ELSE 1..4

StructureSigs ==
  [g \in StructureGames |->
     [c \in Colors |-> [counts |-> pawnCounts(g, c),
                        flank |-> flankBonus(g, c)]]]

EvaluationsOf == {StructureSigs[g][c] : g \in StructureGames, c \in Colors}

Unclamped(e) == weightedSum(e.counts, e.flank)
Score(e) == clamp(Unclamped(e), PawnScale)

\* the evaluations differ in the counts named by fields and in nothing else
SameBut(e1, e2, fields) ==
  /\ e1.flank = e2.flank
  /\ \A k \in (DOMAIN e1.counts) \ fields : e1.counts[k] = e2.counts[k]

\* evaluation e1 has more doubled pawns than e2, all else equal
MoreDoubled(e1, e2) ==
  SameBut(e1, e2, {"doubled"}) /\ e1.counts.doubled > e2.counts.doubled

\* evaluation e1 has more isolated pawns than e2, all else equal; the count
\* of weak pawns is the sum of isolated, backward and over-advanced pawns
\* and follows the isolated count
MoreIsolated(e1, e2) ==
  /\ SameBut(e1, e2, {"isolated", "weak"})
  /\ e1.counts.isolated > e2.counts.isolated
  /\ e1.counts.weak - e2.counts.weak
       = e1.counts.isolated - e2.counts.isolated

Evaluated == StructureSigs[theGame][ret.arg[1]]

\* C17: of two evaluations that differ only in the doubled count, or only in
\* the isolated count (with the weak count that follows it), the one with
\* the larger count scores strictly lower when the other one's unclamped
\* score is above 0 and its own unclamped score is below 1
C17_IsolatedDoubledLowerBelowClamp ==
  ret.op = "getPawnStructureForColor"
    => \A e \in EvaluationsOf :
         ((MoreDoubled(Evaluated, e) \/ MoreIsolated(Evaluated, e))
          /\ Unclamped(e) > 0 /\ Unclamped(Evaluated) < PawnScale)
           => ret.value < Score(e)

C17_Witness ==
  /\ ret.op = "getPawnStructureForColor"
  /\ ret.arg = <<"w">>
  /\ \E e \in EvaluationsOf :
       /\ MoreDoubled(Evaluated, e)
       /\ Unclamped(e) > 0
       /\ Unclamped(Evaluated) < PawnScale
       /\ ret.value < Score(e)

\* C17 as stated: strictly lower whenever the other one's unclamped score is
\* above 0
C17_IsolatedDoubledLower ==
  ret.op = "getPawnStructureForColor"
    => \A e \in EvaluationsOf :
         (/\ \/ MoreDoubled(Evaluated, e)
             \/ /\ SameBut(Evaluated, e, {"isolated"})
                /\ Evaluated.counts.isolated > e.counts.isolated
          /\ Unclamped(e) > 0)
           => ret.value < Score(e)

\* an evaluation with more isolated pawns, all else equal, was compared
C17_IsolatedCompared ==
  /\ ret.op = "getPawnStructureForColor"
  /\ \E e \in EvaluationsOf :
       MoreIsolated(Evaluated, e) /\ Unclamped(e) > 0

\* the pawns of a side on a file without an enemy pawn, with the square one
\* step ahead on the board and empty, and a friendly pawn on an adjacent file
\* on a rank behind
StatedCandidates(game, color) ==
  {p \in PawnSet(game, color) :
     /\ p[1] \notin filesWithPawns(game, enemy(color))
     /\ isOnBoard(p[1], p[2] + forwardStep(color))
     /\ Get(game, p[1], p[2] + forwardStep(color)) = NoPiece
     /\ \E q \in PawnSet(game, color) :
          /\ Abs(q[1] - p[1]) = 1
          /\ (q[2] - p[2]) * forwardStep(color) < 0}

\* C18: when the evaluated side has a pawn on a file without an enemy pawn,
\* not blocked one step ahead and with a friendly pawn behind it on an
\* adjacent file, countCandidatePassedPawns counts at least 1
C18_CandidatePassedCounted ==
  ret.op = "getPawnStructureForColor"
    => (StatedCandidates(theGame, ret.arg[1]) # {}
          => countCandidatePassedPawns(theGame, ret.arg[1]) >= 1)

\* the pawn on square p is defended by a pawn of its side: one rank behind it
\* on an adjacent file
DefendedByPawn(game, color, p) ==
  \E q \in PawnSet(game, color) :
    Abs(q[1] - p[1]) = 1 /\ q[2] = p[2] - forwardStep(color)

\* C19: when the evaluated side has a pawn defended by another of its pawns,
\* getPawnChains returns a chain longer than 1, and the first pawn of every
\* chain it returns is not defended by a friendly pawn
C19_ChainsFoundForBothSides ==
  ret.op = "getPawnStructureForColor"
    => LET color == ret.arg[1]
           chains == getPawnChains(theGame, color)
       IN /\ (\E p \in PawnSet(theGame, color) :
                 DefendedByPawn(theGame, color, p))
               => \E i \in 1..Len(chains) : Len(chains[i]) > 1
          /\ \A i \in 1..Len(chains) :
               ~ DefendedByPawn(theGame, color, chains[i][1])

\* the clamped score before smoothing of the last getKingSafety call, as a
\* two-limb number
AskedRaw == Limb(10 * kingRawScore(theGame, ret.arg[1], AskedKing), 0)

LeverPawns(game, color) ==
  {p \in PawnSet(game, color) :
     \E df \in {-1, 1} :
       <<p[1] + df, p[2] + forwardStep(color)>> \in PawnSet(game, enemy(color))}

\* C22: the lever count of the evaluated side is the number of its pawns that
\* have an enemy pawn diagonally one step ahead, each pawn counted once, and
\* never exceeds the side's pawn total
C22_LeversCountEachPawnOnce ==
  ret.op = "getPawnStructureForColor"
    => /\ countPawnLevers(theGame, ret.arg[1])
            = Cardinality(LeverPawns(theGame, ret.arg[1]))
       /\ countPawnLevers(theGame, ret.arg[1]) <= countPawns(theGame, ret.arg[1])

\* the pawns of a side with no enemy pawn strictly ahead on their file or an
\* adjacent file and no friendly pawn strictly ahead on their file
StatedPassed(game, color) ==
  {p \in PawnSet(game, color) :
     /\ \A q \in PawnSet(game, enemy(color)) :
          Abs(q[1] - p[1]) <= 1 => (q[2] - p[2]) * forwardStep(color) <= 0
     /\ \A q \in PawnSet(game, color) :
          q[1] = p[1] => (q[2] - p[2]) * forwardStep(color) <= 0}

\* C23: countPassedPawns counts exactly the pawns with no enemy pawn strictly
\* ahead on their own or an adjacent file and no friendly pawn strictly ahead
\* on their own file; so it counts at most one pawn per file
C23_PassedPawnsCounted ==
  ret.op = "getPawnStructureForColor"
    => /\ countPassedPawns(theGame, ret.arg[1])
            = Cardinality(StatedPassed(theGame, ret.arg[1]))
       /\ countPassedPawns(theGame, ret.arg[1])
            <= Cardinality(filesWithPawns(theGame, ret.arg[1]))

\* White's doubled pawns d3 and d4 with a black pawn on c3, level with one
\* and behind the other: only d4 is counted
C23_Witness ==
  /\ ret.op = "getPawnStructureForColor"
  /\ ret.arg = <<"w">>
  /\ PawnSet(theGame, "w") = {<<3, 3>>, <<3, 4>>}
  /\ PawnSet(theGame, "b") = {<<2, 3>>}
  /\ StatedPassed(theGame, "w") = {<<3, 4>>}
  /\ countPassedPawns(theGame, "w") = 1

\* the pawns of a side with an enemy pawn on their file exactly one rank
\* ahead
RammedPawns(game, color) ==
  {p \in PawnSet(game, color) :
     <<p[1], p[2] + forwardStep(color)>> \in PawnSet(game, enemy(color))}

\* C24: the rams count in the score of the evaluated side is the number of
\* its pawns blocked by an enemy pawn one rank ahead on the file; it is the
\* same for both sides and 0 for a side without pawns
C24_RamsCountBlockedPawns ==
  ret.op = "getPawnStructureForColor"
    => LET color == ret.arg[1]
           counts == pawnCounts(theGame, color)
           stated == Cardinality(RammedPawns(theGame, color))
       IN /\ counts.rams = stated
          /\ ret.value
               = clamp(weightedSum([counts EXCEPT !.rams = stated],
                                   flankBonus(theGame, color)), PawnScale)
          /\ stated = Cardinality(RammedPawns(theGame, enemy(color)))
          /\ PawnSet(theGame, color) = {} => counts.rams = 0

\* Black evaluated with its d5 pawn blocked by White's d4
C24_Witness ==
  /\ ret.op = "getPawnStructureForColor"
  /\ ret.arg = <<"b">>
  /\ RammedPawns(theGame, "b") = {<<3, 5>>}
  /\ RammedPawns(theGame, "w") = {<<3, 4>>}
  /\ pawnCounts(theGame, "b").rams = 1

\* the files of the flanks: a to c and f to h
FlankFiles == [queenside |-> {0, 1, 2}, kingside |-> {5, 6, 7}]

PawnsOnFlank(game, color, flank) ==
  Cardinality({p \in PawnSet(game, color) : p[1] \in FlankFiles[flank]})

\* +0.02 for strictly more pawns than the opponent on the flank, -0.02
\* otherwise, over PawnScale
StatedFlankTerm(game, color, flank) ==
  IF PawnsOnFlank(game, color, flank) > PawnsOnFlank(game, enemy(color), flank)
  THEN 2 * PawnUnit ELSE -(2 * PawnUnit)

\* C27: each flank adds +0.02 to the evaluated side's score when the side
\* has strictly more pawns there than the opponent and -0.02 otherwise, so
\* the flank bonus is -0.04, 0 or +0.04, and a flank with as many pawns on
\* both sides gives -0.02 to each side
C27_FlankTermsNeverZero ==
  ret.op = "getPawnStructureForColor"
    => LET color == ret.arg[1]
           stated == StatedFlankTerm(theGame, color, "queenside")
                       + StatedFlankTerm(theGame, color, "kingside")
       IN /\ flankBonus(theGame, color) = stated
          /\ ret.value = clamp(weightedSum(pawnCounts(theGame, color), stated),
                               PawnScale)
          /\ stated \in {-(4 * PawnUnit), 0, 4 * PawnUnit}
          /\ \A flank \in DOMAIN FlankFiles :
               PawnsOnFlank(theGame, "w", flank) = PawnsOnFlank(theGame, "b", flank)
                 => \A c \in Colors :
                      flankBonus(theGame, c)
                        = StatedFlankTerm(theGame, c, IF flank = "queenside"
                                                      THEN "kingside"
                                                      ELSE "queenside")
                          - 2 * PawnUnit

\* White evaluated with one pawn each on the kingside and more pawns than
\* Black on the queenside: +0.02 - 0.02
C27_Witness ==
  /\ ret.op = "getPawnStructureForColor"
  /\ ret.arg = <<"w">>
  /\ PawnsOnFlank(theGame, "w", "kingside") = 1
  /\ PawnsOnFlank(theGame, "b", "kingside") = 1
  /\ PawnsOnFlank(theGame, "w", "queenside") > PawnsOnFlank(theGame, "b", "queenside")
  /\ flankBonus(theGame, "w") = 0
  /\ flankBonus(theGame, "b") = -(4 * PawnUnit)

\* the squares of a side's two back ranks
BackRankSquares(color) == Files \X (IF color = "w" THEN {1, 2} ELSE {8, 7})

\* the side has no passed pawn, chain, lever or flank majority
NoBonus(game, color) ==
  /\ countPassedPawns(game, color) = 0
  /\ countPawnChains(game, color) = 0
  /\ countPawnLevers(game, color) = 0
  /\ ~ detectPawnMajority(game, color).queensideMajority
  /\ ~ detectPawnMajority(game, color).kingsideMajority

\* C28: the weak squares of the evaluated side number 16 to 32 and include
\* all squares of its two back ranks, so their term takes 0.2 to 0.4 off the
\* score, and a side without passed pawn, chain, lever and flank majority
\* scores at most 0.8
C28_WeakSquaresSixteenToThirtyTwo ==
  ret.op = "getPawnStructureForColor"
    => LET color == ret.arg[1]
           weak == detectWeakSquares(theGame, color)
           term == 10 * Cardinality(weak) * (PawnUnit \div 8)
       IN /\ Cardinality(weak) \in 16..32
          /\ BackRankSquares(color) \subseteq weak
          /\ 20 * PawnUnit <= term /\ term <= 40 * PawnUnit
          /\ NoBonus(theGame, color) => ret.value <= 80 * PawnUnit

\* White evaluated with a pawn that guards squares of its third or fourth
\* rank and without any bonus
C28_Witness ==
  /\ ret.op = "getPawnStructureForColor"
  /\ ret.arg = <<"w">>
  /\ Cardinality(detectWeakSquares(theGame, "w")) < 32
  /\ BackRankSquares("w") \subseteq detectWeakSquares(theGame, "w")
  /\ squareHasPawn(theGame, "w", 5, 2)
  /\ NoBonus(theGame, "w")
  /\ ret.value <= 80 * PawnUnit

\* C29: for a side without pawns getPawnStructureForColor returns exactly
\* 0.56, whatever pawns the opponent has and whatever other pieces stand on
\* the board
C29_PawnlessSideScores056 ==
  (ret.op = "getPawnStructureForColor" /\ PawnSet(theGame, ret.arg[1]) = {})
    => /\ ret.value = 56 * PawnUnit
       /\ pawnCounts(theGame, ret.arg[1]).total = 1

\* Black, without pawns, evaluated against White's seven pawns and pieces
C29_Witness ==
  /\ ret.op = "getPawnStructureForColor"
  /\ ret.arg = <<"b">>
  /\ theGame = QueenUp
  /\ PawnSet(theGame, "b") = {}
  /\ Cardinality(PawnSet(theGame, "w")) = 7
  /\ ret.value = 56 * PawnUnit

\* the enemy pieces within 3 ranks and 3 files of the king
EnemiesInWindow(game, color, king) ==
  {s \in Squares : /\ game.board[s].color = enemy(color)
                   /\ Abs(s[1] - king.file) <= 3
                   /\ Abs(s[2] - king.rank) <= 3}

\* weight / distance of the piece on square s, times KingScale / 10, with
\* the weights queen 3, rook 2, bishop 1.5, knight 1.2, pawn 0.8, king 1
StatedPressureOf(game, king, s) ==
  LET type == game.board[s].type
      tenfold == IF type = "q" THEN 30 ELSE IF type = "r" THEN 20
                 ELSE IF type = "b" THEN 15 ELSE IF type = "n" THEN 12
                 ELSE IF type = "p" THEN 8 ELSE 10
  IN (tenfold * (KingScale \div 100))
       \div (Abs(s[1] - king.file) + Abs(s[2] - king.rank))

RECURSIVE StatedPressure(_, _, _)
StatedPressure(game, king, S) ==
  IF S = {} THEN 0
  ELSE LET s == CHOOSE x \in S : TRUE
       IN StatedPressureOf(game, king, s) + StatedPressure(game, king, S \ {s})

\* the score before the pressure term: shield, placement and mobility
ScoreBeforePressure(game, color, king) ==
  shieldCount(game, color, king) * ((45 * KingScale) \div 300)
    + placement(color, king, shieldCount(game, color, king))
    + mobilityCount(game, king) * ((5 * KingScale) \div 800)

\* C26: the pressure term takes min(p/10, 0.25) off the score before
\* smoothing, p being the sum of weight / distance over the enemy pieces in
\* the window; the reduction is at most 0.25, is 0 without an enemy piece in
\* the window, and owes nothing to friendly pieces or pieces outside it
C26_PressureReduction ==
  (ret.op = "getKingSafety" /\ AskedKing # NoKing)
    => LET color == ret.arg[1]
           p == StatedPressure(theGame, AskedKing,
                               EnemiesInWindow(theGame, color, AskedKing))
           reduction == Min(p, (25 * KingScale) \div 100)
       IN /\ pressureTenth(theGame, color, AskedKing) = p
          /\ ret.value
               = smooth(clamp(ScoreBeforePressure(theGame, color, AskedKing)
                                - reduction, KingScale))
          /\ EnemiesInWindow(theGame, color, AskedKing) = {} => reduction = 0

\* the enemy king beside the asked king, an enemy rook two files away and a
\* friendly queen ahead: p = 1/1 + 2/2, below the cap
C26_Witness ==
  /\ ret.op = "getKingSafety"
  /\ AskedKing # NoKing
  /\ \E s \in EnemiesInWindow(theGame, ret.arg[1], AskedKing) :
       theGame.board[s].type = "k"
  /\ \E s \in Squares :
       /\ theGame.board[s] = Pc("q", ret.arg[1])
       /\ Abs(s[1] - AskedKing.file) <= 3 /\ Abs(s[2] - AskedKing.rank) <= 3
  /\ pressureTenth(theGame, ret.arg[1], AskedKing) = (20 * KingScale) \div 100

\* an enemy queen beside the asked king: p / 10 = 0.3 is cut to 0.25
C26_CapReached ==
  /\ ret.op = "getKingSafety"
  /\ AskedKing # NoKing
  /\ pressureTenth(theGame, ret.arg[1], AskedKing) > pressureCap

\* C30: with a king on the board getKingSafety returns at most 0.81175: the
\* score before smoothing is at most 0.85, and the placement term is above
\* 0.3 only for a king on a post-castling square with at least two pawns
\* ahead of it; the value 1 is never returned
C30_KingSafetyAtMost081175 ==
  (ret.op = "getKingSafety" /\ AskedKing # NoKing)
    => LET color == ret.arg[1]
           shield == shieldCount(theGame, color, AskedKing)
       IN /\ LimbLeq(ret.value, LimbOf(3247, 4000))
          /\ LimbLess(ret.value, LimbOne)
          /\ kingRawScore(theGame, color, AskedKing) <= (85 * KingScale) \div 100
          /\ ScoreBeforePressure(theGame, color, AskedKing)
               <= (85 * KingScale) \div 100
          /\ placement(color, AskedKing, shield) > (30 * KingScale) \div 100
               => /\ OnCastledSquare(color, AskedKing)
                  /\ Cardinality(PawnsAhead(theGame, color, AskedKing)) >= 2

\* a king on a castled square behind three pawns and free of pressure: the
\* placement term is 0.35 and the returned value is above 0.75
C30_Witness ==
  /\ ret.op = "getKingSafety"
  /\ AskedKing # NoKing
  /\ OnCastledSquare(ret.arg[1], AskedKing)
  /\ Cardinality(PawnsAhead(theGame, ret.arg[1], AskedKing)) = 3
  /\ placement(ret.arg[1], AskedKing, 3) = (35 * KingScale) \div 100
  /\ pressureTenth(theGame, ret.arg[1], AskedKing) = 0
  /\ LimbLess(LimbOf(3, 4), ret.value)
  /\ LimbLeq(ret.value, LimbOf(3247, 4000))

\* the score a sequential evaluation of the game and side returns on an
\* empty cache
SequentialScore ==
  [g \in DOMAIN InterleavedGames |->
     [c \in Colors |->
        getPawnStructureForColor(EmptyMap, computePawnKey(InterleavedGames[g]),
                                 pawnResult(InterleavedGames[g], c), c).value]]

\* the cache key of a game of InterleavedGames
KeyOf(g) == MetricsOf[InterleavedGames[g]].pawnKey

\* C25: however the cache reads and writes of several evaluations are
\* interleaved, an evaluation that has returned has returned the score of a
\* sequential evaluation on an empty cache, and every score in the cache is
\* the score of its key's layout and its side
C25_InterleavedScoresRight ==
  /\ \A e \in Evaluations :
       InFlight[e].pc = "done"
         => InFlight[e].returned = SequentialScore[InFlight[e].game][InFlight[e].color]
  /\ \A g \in DOMAIN InterleavedGames :
       KeyOf(g) \in DOMAIN pawnTT
         => \A c \in DOMAIN pawnTT[KeyOf(g)] :
              pawnTT[KeyOf(g)][c] = SequentialScore[g][c]

\* two evaluations of one layout, one per side, have both stored and
\* returned, and the record holds only one side's score: an update was lost
C25_Witness ==
  \E e1, e2 \in Evaluations :
    /\ InFlight[e1].pc = "done" /\ InFlight[e2].pc = "done"
    /\ KeyOf(InFlight[e1].game) = KeyOf(InFlight[e2].game)
    /\ InFlight[e1].color = "w" /\ InFlight[e2].color = "b"
    /\ InFlight[e1].returned = SequentialScore[InFlight[e1].game]["w"]
    /\ InFlight[e2].returned = SequentialScore[InFlight[e2].game]["b"]
    /\ DOMAIN pawnTT[KeyOf(InFlight[e1].game)] = {"w"}

\* an evaluation returned a score it read from the cache after the others
\* had interleaved
C25_HitAfterInterleaving ==
  \E e \in Evaluations :
    /\ InFlight[e].pc = "done"
    /\ InFlight[e].result = 0
    /\ InFlight[e].returned = SequentialScore[InFlight[e].game][InFlight[e].color]
    /\ \E e2 \in Evaluations \ {e} : InFlight[e2].pc = "store"

=========================================================================
